---------------------------- MODULE Spec2Model ----------------------------
(***************************************************************************)
(* The translation orchestrator of translaitor (src/src/translator.py):    *)
(* call_gemini_with_retry, the bounded transport retry loop around one     *)
(* backend call, and translate_with_gemini, which builds a prompt, calls   *)
(* the backend, strips and parses the completion and validates that the    *)
(* parsed structure has the shape of the request, retrying on a parse      *)
(* failure or a fragment-count mismatch through a recursive self-call.     *)
(*                                                                         *)
(* The configuration (API key, model name, style, topic) is taken as       *)
(* loaded; max_retries and initial_delay are the two values the retry      *)
(* logic reads from it.                                                    *)
(***************************************************************************)
EXTENDS Integers, Sequences, FiniteSets, TLC

(***************************************************************************)
(* Bounds of the model.                                                    *)
(***************************************************************************)
\* most units (slides, paragraphs) of a request or response structure
MaxUnits == 2

\* most fragments ("texts") of one unit
MaxFrags == 2

\* largest configured max_retries explored for call_gemini_with_retry on its own
MaxRetriesCap == 5

\* the configured max_retries explored in a run of translate_with_gemini: this
\* and none
MaxRetriesInRun == 2

\* most units (slides, body paragraphs) of a document given to a writer
MaxDocUnits == 2

\* how far past the last unit the cursor of a text iterator is driven
MaxCursorOverrun == 2

\* the documents of a batch
MaxBatch == 3

\* the calls of extract_text on one document that are followed
MaxExtractions == 2

(***************************************************************************)
(* Program constants.                                                      *)
(***************************************************************************)
\* translator.py:398
max_structure_retries == 2

\* translator.py:102: the default of config.get_initial_delay()
default_initial_delay == 1

\* the configured initial delays explored for call_gemini_with_retry on its own
InitialDelays == {1, 3}

(***************************************************************************)
(* The transfer format {"slides"|"paragraphs": [{"texts": [str, ...]}]}:   *)
(* a structure is its root key and the sequence of its units, each unit    *)
(* the sequence of its fragment strings.                                   *)
(***************************************************************************)
RootKeys == {"slides", "paragraphs"}

\* the fragment text of the requests, and the texts a response may hold
\* (a translation, the empty string)
SourceText == "Hello"

ResponseTexts == {"Hola", ""}

\* the shapes of a structure: the fragment count of each of its units
Shapes == UNION {[1..n -> 0..MaxFrags] : n \in 0..MaxUnits}

\* the units of shape sh with every fragment the text t
Fill(sh, t) == [i \in 1..Len(sh) |-> [j \in 1..sh[i] |-> t]]

\* a document of the transfer format: its root key, the "texts" list of each
\* of its units, and the units that have no "texts" list (their place in
\* units is empty)
Doc(k, u, missing) == [key |-> k, units |-> u, no_texts |-> missing]

Requests == {Doc(k, Fill(sh, SourceText), {}) : k \in RootKeys, sh \in Shapes}

\* the units of a response: any shape, and one text in all its fragments, so
\* that the shape and the content of a response vary independently
ResponseUnits == {Fill(sh, t) : sh \in Shapes, t \in ResponseTexts}

\* the documents with one unit that has no "texts" list
TextlessDocs ==
    UNION {{Doc(k, Fill(sh, "Hola"), {i}) : i \in {n \in 1..Len(sh) : sh[n] = 0}} :
            k \in RootKeys, sh \in Shapes}

\* the documents a completion may hold: any shape and content, the echoes of
\* the requests, and the documents with a unit without "texts", under either
\* root key
ResponseDocs ==
    {Doc(k, u, {}) : k \in RootKeys, u \in ResponseUnits} \cup Requests
        \cup TextlessDocs

NoDoc == Doc("none", << >>, {})

(***************************************************************************)
(* The completion text, as its lines.  A line is a code-fence line (it     *)
(* starts with ```), a line of prose, or a line holding a whole JSON       *)
(* document.                                                               *)
(***************************************************************************)
FenceLine == [kind |-> "fence", doc |-> NoDoc]

ProseLine == [kind |-> "prose", doc |-> NoDoc]

JsonLine(d) == [kind |-> "json", doc |-> d]

\* the ways a payload line is wrapped in a completion
ResponseForms == {"bare", "fenced", "unclosed", "chatty"}

ResponseText(form, line) ==
    CASE form = "bare"     -> <<line>>
      [] form = "fenced"   -> <<FenceLine, line, FenceLine>>
      [] form = "unclosed" -> <<FenceLine, line>>
      [] form = "chatty"   -> <<ProseLine, line>>

Payloads == {JsonLine(d) : d \in ResponseDocs} \cup {ProseLine}

\* every payload bare and fenced; the forms that cannot parse on the echoes and
\* on prose
Completions ==
    {ResponseText(f, p) : f \in {"bare", "fenced"}, p \in Payloads}
        \cup {ResponseText(f, p) : f \in ResponseForms,
                                   p \in {JsonLine(d) : d \in Requests} \cup {ProseLine}}

\* the completions explored for request X: a document under the root key of X
\* with any shape and content, the echo of X under either root key, prose
AnswersTo(X, text) ==
    \A i \in 1..Len(text) :
        text[i].kind = "json" =>
            \/ text[i].doc.units = X.units
            \/ text[i].doc.key = X.key /\ text[i].doc.units \in ResponseUnits

\* the stripping that drops the opening fence line only
StripOpeningFence(lines) ==
    IF Len(lines) > 0 /\ lines[1].kind = "fence"
    THEN IF Len(lines) > 2 THEN SubSeq(lines, 2, Len(lines)) ELSE lines
    ELSE lines

\* translator.py:337-339: a text that starts with a fence loses its first and
\* its last line when it has more than two lines
StripCodeFence(lines) ==
    IF Len(lines) > 0 /\ lines[1].kind = "fence"
    THEN IF Len(lines) > 2 THEN SubSeq(lines, 2, Len(lines) - 1) ELSE lines
    ELSE lines

\* translator.py:342: json.loads succeeds on a text that is one JSON document
JsonParses(lines) == Len(lines) = 1 /\ lines[1].kind = "json"

JsonLoads(lines) == lines[1].doc

(***************************************************************************)
(* Backend exceptions (google.api_core.exceptions) and the Retry-After     *)
(* header an exception's response may carry.                               *)
(***************************************************************************)
ServerErrorKinds == {"ResourceExhausted", "ServiceUnavailable", "InternalServerError"}

TimeoutKind == "DeadlineExceeded"

\* any other exception of the backend call
OtherKinds == {"InvalidArgument"}

\* the Retry-After values explored, as their characters: empty, integers
\* (zero and negative among them), and values int() rejects
HeaderStrings ==
    {<< >>, <<"7">>, <<"0">>, <<"1", "0">>, <<"-", "7">>, <<"x">>, <<"7", "x">>, <<"-">>}

\* e.response: absent (None), or headers with or without Retry-After
NoResponse == [response |-> FALSE, has |-> FALSE, value |-> << >>]

NoRetryAfter == [response |-> TRUE, has |-> FALSE, value |-> << >>]

RetryAfter(s) == [response |-> TRUE, has |-> TRUE, value |-> s]

ErrorResponses == {NoResponse, NoRetryAfter} \cup {RetryAfter(s) : s \in HeaderStrings}

DigitValue == [c \in {"0", "1", "7"} |-> CASE c = "0" -> 0 [] c = "1" -> 1 [] c = "7" -> 7]

\* int(s) on the header's characters: an optional sign and then digits
IsDigits(s) == Len(s) > 0 /\ \A i \in 1..Len(s) : s[i] \in DOMAIN DigitValue

IntParses(s) ==
    \/ IsDigits(s)
    \/ Len(s) > 1 /\ s[1] = "-" /\ IsDigits(Tail(s))

RECURSIVE DigitsValue(_)
DigitsValue(s) ==
    IF s = << >> THEN 0
    ELSE 10 * DigitsValue(SubSeq(s, 1, Len(s) - 1)) + DigitValue[s[Len(s)]]

IntValue(s) == IF s[1] = "-" THEN 0 - DigitsValue(Tail(s)) ELSE DigitsValue(s)

RECURSIVE Pow2(_)
Pow2(n) == IF n = 0 THEN 1 ELSE 2 * Pow2(n - 1)

\* AttemptsRemain off by one: the last attempt of the budget waits too
AttemptsRemainInclusive(a, mr) == a < mr

\* translator.py:229, 248, 270: a failed attempt is retried while it is not the
\* last of the budget
AttemptsRemain(a, mr) == a < mr - 1

\* ServerErrorWait that never looks at the header
ServerErrorWaitIgnoringHeader(delay, a, resp) == delay * Pow2(a)

\* translator.py:230-235, 250-257: exponential backoff, replaced by the
\* Retry-After value when the header is there, non-empty and an integer
ServerErrorWait(delay, a, resp) ==
    IF resp.response /\ resp.has /\ resp.value # << >> /\ IntParses(resp.value)
    THEN IntValue(resp.value)
    ELSE delay * Pow2(a)

\* TimeoutWait with the backoff of the server errors
TimeoutWaitLikeServerError(delay, a) == delay * Pow2(a)

\* translator.py:271: the longer backoff of a timeout
TimeoutWait(delay, a) == delay * Pow2(a + 1)


(***************************************************************************)
(* The prompt builder.                                                     *)
(***************************************************************************)
\* translation_prompts.py:78-80: the keyword parameters of the function
PromptParams == {"json_data", "target_lang", "source_lang", "style", "topic"}

\* translator.py:316-324: the keyword arguments of the orchestrator's call
PromptCallArgs ==
    {"json_data", "target_lang", "source_lang", "style", "topic", "retry_attempt", "config"}

NoPrompt == [built |-> FALSE, retry_attempt |-> 0, warning |-> FALSE]

\* translation_prompts.py:78-111: a call with a keyword the function does not
\* declare raises TypeError; the prompt built has no part that depends on the
\* retry attempt
get_translation_prompt(args) ==
    IF args \subseteq PromptParams
    THEN [raised |-> FALSE, prompt |-> [built |-> TRUE, retry_attempt |-> 0, warning |-> FALSE]]
    ELSE [raised |-> TRUE, prompt |-> NoPrompt]

\* the prompt of the design: built for every attempt, with the escalating
\* warning block when retry_attempt > 0
RetryAwarePrompt(ra) == [built |-> TRUE, retry_attempt |-> ra, warning |-> ra > 0]

(***************************************************************************)
(* The decisions of the validation, translator.py:356-411.                 *)
(***************************************************************************)
\* CanRetryParse with the test inverted
CanRetryParseInverted(ra) == ra # 0

\* CanRetryParse under the bound of the structure retries
CanRetryParseLikeStructure(ra) == ra < max_structure_retries

\* translator.py:356
CanRetryParse(ra) == ra = 0

\* translator.py:368, 371: translated_data[structure_key] exists
HasRootKey(X, Y) == Y.key = X.key

\* SameUnitCount that lets a longer response through
SameUnitCountAtLeast(X, Y) == Len(X.units) <= Len(Y.units)

\* SameUnitCount with the comparison left out
SameUnitCountUnchecked(X, Y) == TRUE

\* translator.py:371
SameUnitCount(X, Y) == Len(X.units) = Len(Y.units)

\* TextlessUnits with unit.get("texts", []) for the lookup
TextlessUnitsDefaulted(X, Y) == {}

\* translator.py:377-379: the units zip pairs whose response unit has no
\* "texts"; trans_slide["texts"] is a KeyError there
TextlessUnits(X, Y) == {i \in 1..Len(X.units) : i <= Len(Y.units) /\ i \in Y.no_texts}

\* MismatchedUnits with the loop stopping one unit early
MismatchedUnitsButLast(X, Y) ==
    {i \in 1..(Len(X.units) - 1) :
        /\ i <= Len(Y.units)
        /\ \A j \in TextlessUnits(X, Y) : i < j
        /\ Len(X.units[i]) # Len(Y.units[i])}

\* translator.py:377-380: the units zip pairs whose fragment counts differ,
\* as far as the loop gets, which is up to the first unit without "texts"
MismatchedUnits(X, Y) ==
    {i \in 1..Len(X.units) :
        /\ i <= Len(Y.units)
        /\ \A j \in TextlessUnits(X, Y) : i < j
        /\ Len(X.units[i]) # Len(Y.units[i])}

\* the loop running on to the last such unit
LastMismatch(X, Y) ==
    CHOOSE i \in MismatchedUnits(X, Y) : \A j \in MismatchedUnits(X, Y) : j <= i

Min(S) == CHOOSE x \in S : \A y \in S : x <= y

\* translator.py:377-380: the loop stops at the first such unit
FirstMismatch(X, Y) == Min(MismatchedUnits(X, Y))

\* CanRetryStructure off by one
CanRetryStructureInclusive(ra) == ra <= max_structure_retries

\* translator.py:399
CanRetryStructure(ra) == ra < max_structure_retries

(***************************************************************************)
(* The positional text iterator: class TextIterator of pptx_handler.py     *)
(* (45-70), docx_handler.py (10-35, with paragraphs for slides) and        *)
(* reintegrator.py (7-32), the same code three times.  A text is the       *)
(* sequence of its characters.                                             *)
(***************************************************************************)
\* __init__
TextIterator(td) == [slides |-> td.units, current_slide |-> 0, current_text |-> 0]

\* the value None of get_next, and a text it returns
NoText == [some |-> FALSE, text |-> << >>]

SomeText(t) == [some |-> TRUE, text |-> t]

\* get_next with the test of the unit cursor left out: past the last unit it
\* reads the slides again from the first
get_nextWrapping(it) ==
    LET n == Len(it.slides)
        slide_texts == IF n = 0 THEN << >> ELSE it.slides[(it.current_slide % n) + 1]
    IN  IF it.current_text >= Len(slide_texts)
        THEN [value |-> NoText, it |-> it]
        ELSE [value |-> SomeText(slide_texts[it.current_text + 1]),
              it |-> [it EXCEPT !.current_text = @ + 1]]

\* get_next that moves the text cursor on before it looks for the text
get_nextAdvancingFirst(it) ==
    IF it.current_slide >= Len(it.slides)
    THEN [value |-> NoText, it |-> it]
    ELSE IF it.current_text >= Len(it.slides[it.current_slide + 1])
         THEN [value |-> NoText, it |-> [it EXCEPT !.current_text = @ + 1]]
         ELSE [value |-> SomeText(it.slides[it.current_slide + 1][it.current_text + 1]),
               it |-> [it EXCEPT !.current_text = @ + 1]]

\* get_next: the value returned and the iterator after the call
get_next(it) ==
    IF it.current_slide >= Len(it.slides)
    THEN [value |-> NoText, it |-> it]
    ELSE LET slide_texts == it.slides[it.current_slide + 1] IN
            IF it.current_text >= Len(slide_texts)
            THEN [value |-> NoText, it |-> it]
            ELSE [value |-> SomeText(slide_texts[it.current_text + 1]),
                  it |-> [it EXCEPT !.current_text = @ + 1]]

\* next_slide that leaves the text cursor where it is
next_slideKeepingText(it) == [it EXCEPT !.current_slide = @ + 1]

\* next_slide that resets the text cursor only
next_slideStaying(it) == [it EXCEPT !.current_text = 0]

\* next_slide / next_paragraph
next_slide(it) == [it EXCEPT !.current_slide = @ + 1, !.current_text = 0]

(***************************************************************************)
(* Documents.  A run is its text and its font; a paragraph is the sequence *)
(* of its runs; a text frame (of a shape or of a table cell) the sequence  *)
(* of its paragraphs.  A shape is a picture, a text box, a table (rows of  *)
(* cells) or a group of shapes; a slide is the sequence of its shapes and  *)
(* a presentation the sequence of its slides.  A Word document is its body *)
(* paragraphs and its tables (rows of cells of paragraphs).                *)
(***************************************************************************)
Run(t, f) == [text |-> t, font |-> f]

\* the font of a run the library creates
DefaultFont == "default"

Whitespace == {" ", "\n"}

RECURSIVE Concat(_)
Concat(seqs) == IF seqs = << >> THEN << >> ELSE Head(seqs) \o Concat(Tail(seqs))

\* sample paragraphs: no run; one run; a run, an empty run and a run with
\* blanks around its text; a run of one blank
PEmpty == << >>

PHi == <<Run(<<"H", "i">>, "bold")>>

PMixed == <<Run(<<"a">>, "bold"), Run(<< >>, DefaultFont), Run(<<" ", "b", " ">>, "italic")>>

PBlank == <<Run(<<" ">>, DefaultFont)>>

SampleParagraphs == {PEmpty, PHi, PMixed, PBlank}

Picture == [kind |-> "picture", text_frame |-> << >>, table |-> << >>, shapes |-> << >>]

TextBox(frame) == [kind |-> "text", text_frame |-> frame, table |-> << >>, shapes |-> << >>]

TableShape(rows) == [kind |-> "table", text_frame |-> << >>, table |-> rows, shapes |-> << >>]

GroupShape(subs) == [kind |-> "group", text_frame |-> << >>, table |-> << >>, shapes |-> subs]

\* hasattr(shape, "text_frame") and shape.has_text_frame; hasattr(shape,
\* "table"); hasattr(shape, "shapes")
HasTextFrame(shape) == shape.kind = "text"

HasTable(shape) == shape.kind = "table"

HasShapes(shape) == shape.kind = "group"

\* a table of two rows of two cells whose texts all differ
SquareTable == TableShape(<< << <<PHi>>, <<PMixed>> >>, << <<PBlank>>, <<PEmpty>> >> >>)

\* sample slides: none, a box of mixed runs, a picture and a box of three
\* paragraphs, a table of one row and a group holding a box and a group, a
\* group between a table of two rows and a box
SampleSlides ==
    { << >>,
      <<TextBox(<<PMixed>>)>>,
      <<Picture, TextBox(<<PHi, PBlank, PHi>>)>>,
      <<TableShape(<< << <<PHi>>, <<PEmpty>>, <<PMixed>> >> >>),
        GroupShape(<<TextBox(<<PHi>>), GroupShape(<<TextBox(<<PEmpty, PMixed>>)>>)>>)>>,
      <<SquareTable, GroupShape(<<TextBox(<<PBlank>>), TextBox(<<PMixed>>)>>),
        TextBox(<<PHi>>)>> }

Presentations == UNION {[1..n -> SampleSlides] : n \in 0..MaxDocUnits}

\* sample tables of a Word document: one row of two cells, the second of
\* two paragraphs
SampleTables == {<< >>, << << << <<PHi>>, <<PMixed, PBlank>> >> >> >>}

WordDocuments ==
    {[paragraphs |-> ps, tables |-> ts] :
        ps \in UNION {[1..n -> SampleParagraphs] : n \in 0..MaxDocUnits}, ts \in SampleTables}

(***************************************************************************)
(* The run-level reader and writer of presentations, pptx_handler.py.      *)
(***************************************************************************)
\* RunTexts that passes over the runs of whitespace only
RunTextsWithoutBlanks(paragraph) ==
    LET kept == SelectSeq(paragraph,
                    LAMBDA run : \E n \in 1..Len(run.text) : run.text[n] \notin Whitespace)
    IN  [k \in 1..Len(kept) |-> kept[k].text]

\* pptx_handler.py:24-26, 33-35: the texts of the runs that have text
RunTexts(paragraph) ==
    LET kept == SelectSeq(paragraph, LAMBDA run : run.text # << >>) IN
        [k \in 1..Len(kept) |-> kept[k].text]

\* pptx_handler.py:23-26, 32-35
FrameRunTexts(frame) == Concat([k \in 1..Len(frame) |-> RunTexts(frame[k])])

\* TableRunTexts that goes through the cells column by column
TableRunTextsByColumn(rows) ==
    IF rows = << >> THEN << >>
    ELSE Concat([c \in 1..Len(rows[1]) |->
            Concat([r \in 1..Len(rows) |-> FrameRunTexts(rows[r][c])])])

\* pptx_handler.py:30-35
TableRunTexts(rows) ==
    Concat([r \in 1..Len(rows) |->
        Concat([c \in 1..Len(rows[r]) |-> FrameRunTexts(rows[r][c])])])

\* pptx_handler.py:10-42
RECURSIVE extract_text_from_shape(_)
extract_text_from_shape(shape) ==
    (IF HasTextFrame(shape) THEN FrameRunTexts(shape.text_frame) ELSE << >>)
        \o (IF HasTable(shape) THEN TableRunTexts(shape.table) ELSE << >>)
        \o (IF HasShapes(shape)
            THEN Concat([k \in 1..Len(shape.shapes) |-> extract_text_from_shape(shape.shapes[k])])
            ELSE << >>)

\* pptx_handler.py:118-142: PPTXHandler.extract_text
PPTXExtractText(presentation) ==
    [key |-> "slides",
     units |-> [i \in 1..Len(presentation) |->
        Concat([k \in 1..Len(presentation[i]) |->
            extract_text_from_shape(presentation[i][k])])]]

\* the result of a write: the node written, the iterator and the count
Written(node, it, count) == [node |-> node, it |-> it, count |-> count]

\* WriteRun that pulls a text for the runs without text too
WriteRunUnfiltered(run, it) ==
    LET r == get_next(it) IN
        IF r.value.some
        THEN Written([run EXCEPT !.text = r.value.text], r.it, 1)
        ELSE Written(run, r.it, 0)

\* WriteRun that tests the text for truth and so skips the empty string
WriteRunIfText(run, it) ==
    IF run.text # << >>
    THEN LET r == get_next(it) IN
            IF r.value.some /\ r.value.text # << >>
            THEN Written([run EXCEPT !.text = r.value.text], r.it, 1)
            ELSE Written(run, r.it, 0)
    ELSE Written(run, it, 0)

\* WriteRun with count += 1 outside the test for None: every run with text
\* is counted
WriteRunCountingRuns(run, it) ==
    IF run.text # << >>
    THEN Written((IF get_next(it).value.some
                  THEN [run EXCEPT !.text = get_next(it).value.text] ELSE run),
                 get_next(it).it, 1)
    ELSE Written(run, it, 0)

\* WriteRun with the test for None left out: an exhausted iterator blanks the
\* run, and the run is counted
WriteRunWithoutNoneTest(run, it) ==
    IF run.text # << >>
    THEN Written([run EXCEPT !.text = get_next(it).value.text], get_next(it).it, 1)
    ELSE Written(run, it, 0)

\* pptx_handler.py:89-93, 101-105: a run that has text takes the next text of
\* the iterator, unless that is None
WriteRun(run, it) ==
    IF run.text # << >>
    THEN LET r == get_next(it) IN
            IF r.value.some
            THEN Written([run EXCEPT !.text = r.value.text], r.it, 1)
            ELSE Written(run, r.it, 0)
    ELSE Written(run, it, 0)

\* WriteRuns that keeps only the runs that have text
RECURSIVE WriteRunsDroppingEmpty(_, _)
KeptRunsAfter(first, runs) ==
    Written((IF first.node.text # << >> THEN <<first.node>> ELSE << >>)
                \o WriteRunsDroppingEmpty(runs, first.it).node,
            WriteRunsDroppingEmpty(runs, first.it).it,
            first.count + WriteRunsDroppingEmpty(runs, first.it).count)

WriteRunsDroppingEmpty(runs, it) ==
    IF runs = << >> THEN Written(<< >>, it, 0)
    ELSE KeptRunsAfter(WriteRun(Head(runs), it), Tail(runs))

\* the writes of a loop: those of its first step, then those of the rest
Prepend(first, rest) ==
    Written(<<first.node>> \o rest.node, rest.it, first.count + rest.count)

\* pptx_handler.py:88, 100: for run in paragraph.runs
RECURSIVE WriteRuns(_, _)
RunsAfter(first, runs) == Prepend(first, WriteRuns(runs, first.it))

WriteRuns(runs, it) ==
    IF runs = << >> THEN Written(<< >>, it, 0)
    ELSE RunsAfter(WriteRun(Head(runs), it), Tail(runs))

\* pptx_handler.py:87, 99: for paragraph in text_frame.paragraphs
RECURSIVE WriteFrame(_, _)
ParagraphsAfter(first, paragraphs) == Prepend(first, WriteFrame(paragraphs, first.it))

WriteFrame(frame, it) ==
    IF frame = << >> THEN Written(<< >>, it, 0)
    ELSE ParagraphsAfter(WriteRuns(Head(frame), it), Tail(frame))

\* pptx_handler.py:98: for cell in row.cells
RECURSIVE WriteCells(_, _)
CellsAfter(first, cells) == Prepend(first, WriteCells(cells, first.it))

WriteCells(cells, it) ==
    IF cells = << >> THEN Written(<< >>, it, 0)
    ELSE CellsAfter(WriteFrame(Head(cells), it), Tail(cells))

\* pptx_handler.py:97: for row in shape.table.rows
RECURSIVE WriteRows(_, _)
RowsAfter(first, rows) == Prepend(first, WriteRows(rows, first.it))

WriteRows(rows, it) ==
    IF rows = << >> THEN Written(<< >>, it, 0)
    ELSE RowsAfter(WriteCells(Head(rows), it), Tail(rows))

\* pptx_handler.py:86-93: the text frame of the shape, if it has one
FrameStep(shape, it) ==
    IF HasTextFrame(shape)
    THEN Written([shape EXCEPT !.text_frame = WriteFrame(shape.text_frame, it).node],
                 WriteFrame(shape.text_frame, it).it,
                 WriteFrame(shape.text_frame, it).count)
    ELSE Written(shape, it, 0)

\* pptx_handler.py:96-105: then its table, if it has one
TableStep(done) ==
    IF HasTable(done.node)
    THEN Written([done.node EXCEPT !.table = WriteRows(done.node.table, done.it).node],
                 WriteRows(done.node.table, done.it).it,
                 done.count + WriteRows(done.node.table, done.it).count)
    ELSE done

RECURSIVE reintegrate_text_into_shape(_, _)
RECURSIVE WriteSubShapes(_, _)
SubShapesAfter(first, subs) == Prepend(first, WriteSubShapes(subs, first.it))

\* pptx_handler.py:109: for sub_shape in shape.shapes
WriteSubShapes(subs, it) ==
    IF subs = << >> THEN Written(<< >>, it, 0)
    ELSE SubShapesAfter(reintegrate_text_into_shape(Head(subs), it), Tail(subs))

\* pptx_handler.py:108-110: then the shapes of a group
SubShapesStep(done) ==
    IF HasShapes(done.node)
    THEN Written([done.node EXCEPT !.shapes = WriteSubShapes(done.node.shapes, done.it).node],
                 WriteSubShapes(done.node.shapes, done.it).it,
                 done.count + WriteSubShapes(done.node.shapes, done.it).count)
    ELSE done

\* pptx_handler.py:73-112
reintegrate_text_into_shape(shape, it) == SubShapesStep(TableStep(FrameStep(shape, it)))

(***************************************************************************)
(* The run-level reader and writer of Word documents, docx_handler.py.     *)
(***************************************************************************)
\* docx_handler.py:80-82, 93-95
DocxRunTexts(paragraph) ==
    LET kept == SelectSeq(paragraph, LAMBDA run : run.text # << >>) IN
        [k \in 1..Len(kept) |-> kept[k].text]

\* docx_handler.py:88-96: one unit per paragraph of every cell of every row of
\* every table
DocxTableUnits(tables) ==
    Concat([t \in 1..Len(tables) |->
        Concat([r \in 1..Len(tables[t]) |->
            Concat([c \in 1..Len(tables[t][r]) |->
                [q \in 1..Len(tables[t][r][c]) |-> DocxRunTexts(tables[t][r][c][q])]])])])

\* docx_handler.py:63-98: DOCXHandler.extract_text
DOCXExtractText(doc) ==
    [key |-> "paragraphs",
     units |-> [k \in 1..Len(doc.paragraphs) |-> DocxRunTexts(doc.paragraphs[k])]
                    \o DocxTableUnits(doc.tables)]

\* docx_handler.py:38-57
RECURSIVE replace_runs_with_text_list(_, _)
replace_runs_with_text_list(paragraph, it) ==
    IF paragraph = << >> THEN Written(<< >>, it, 0)
    ELSE LET run == Head(paragraph)
             r == get_next(it)
             first == IF run.text # << >>
                      THEN IF r.value.some
                           THEN Written([run EXCEPT !.text = r.value.text], r.it, 1)
                           ELSE Written(run, r.it, 0)
                      ELSE Written(run, it, 0)
             rest == replace_runs_with_text_list(Tail(paragraph), first.it)
         IN  Written(<<first.node>> \o rest.node, rest.it, first.count + rest.count)

\* docx_handler.py:134-137: the paragraphs of the tables in the order the
\* writer's loops reach them, as table, row, cell and paragraph numbers
DocxTableParagraphs(tables) ==
    Concat([t \in 1..Len(tables) |->
        Concat([r \in 1..Len(tables[t]) |->
            Concat([c \in 1..Len(tables[t][r]) |->
                [q \in 1..Len(tables[t][r][c]) |-> <<t, r, c, q>>]])])])

(***************************************************************************)
(* The aggregate-level reader and writer of presentations, extractor.py    *)
(* and reintegrator.py: one fragment per text frame.                       *)
(***************************************************************************)
\* paragraph.text: the texts of the runs, joined
ParagraphText(paragraph) == Concat([k \in 1..Len(paragraph) |-> paragraph[k].text])

\* text_frame.text read: the texts of the paragraphs, a line feed between them
RECURSIVE JoinLines(_)
JoinLines(lines) ==
    IF lines = << >> THEN << >>
    ELSE IF Len(lines) = 1 THEN lines[1]
    ELSE lines[1] \o <<"\n">> \o JoinLines(Tail(lines))

FrameText(frame) == JoinLines([k \in 1..Len(frame) |-> ParagraphText(frame[k])])

\* str.strip()
RECURSIVE StripLeft(_)
StripLeft(t) == IF t # << >> /\ Head(t) \in Whitespace THEN StripLeft(Tail(t)) ELSE t

RECURSIVE StripRight(_)
StripRight(t) ==
    IF t # << >> /\ t[Len(t)] \in Whitespace THEN StripRight(SubSeq(t, 1, Len(t) - 1)) ELSE t

Strip(t) == StripRight(StripLeft(t))

\* str.split("\n")
RECURSIVE SplitLines(_)
SplitLines(t) ==
    IF \A k \in 1..Len(t) : t[k] # "\n" THEN <<t>>
    ELSE LET k == CHOOSE k \in 1..Len(t) : t[k] = "\n" /\ \A m \in 1..(k - 1) : t[m] # "\n" IN
            <<SubSeq(t, 1, k - 1)>> \o SplitLines(SubSeq(t, k + 1, Len(t)))

\* reintegrator.py:66, 73, 121: text_frame.text written: the frame is emptied
\* and gets one paragraph per line, of one new run when the line has text
SetFrameText(text) ==
    LET lines == SplitLines(text) IN
        [k \in 1..Len(lines) |->
            IF lines[k] = << >> THEN << >> ELSE <<Run(lines[k], DefaultFont)>>]

\* extractor.py:19-22, 28-30
AggregateFrameTexts(frame) ==
    LET text == Strip(FrameText(frame)) IN IF text # << >> THEN <<text>> ELSE << >>

\* extractor.py:7-37
RECURSIVE extractor_extract_text_from_shape(_)
extractor_extract_text_from_shape(shape) ==
    (IF HasTextFrame(shape) THEN AggregateFrameTexts(shape.text_frame) ELSE << >>)
        \o (IF HasTable(shape)
            THEN Concat([r \in 1..Len(shape.table) |->
                    Concat([c \in 1..Len(shape.table[r]) |->
                        AggregateFrameTexts(shape.table[r][c])])])
            ELSE << >>)
        \o (IF HasShapes(shape)
            THEN Concat([k \in 1..Len(shape.shapes) |->
                    extractor_extract_text_from_shape(shape.shapes[k])])
            ELSE << >>)

\* extractor.py:40-64
extract_text_from_pptx(presentation) ==
    [key |-> "slides",
     units |-> [i \in 1..Len(presentation) |->
        Concat([k \in 1..Len(presentation[i]) |->
            extractor_extract_text_from_shape(presentation[i][k])])]]

\* replace_text_preserve_formatting without the font put back
replace_text_losing_formatting(text_frame, new_text) == SetFrameText(new_text)

\* reintegrator.py:56-161: the new text replaces the content of the frame, and
\* the font properties of the former first run, where set, go to the new one
replace_text_preserve_formatting(text_frame, new_text) ==
    IF text_frame = << >> THEN SetFrameText(new_text)
    ELSE IF text_frame[1] = << >> THEN SetFrameText(new_text)
    ELSE LET saved_font == text_frame[1][1].font
             new == SetFrameText(new_text)
         IN  IF new # << >> /\ new[1] # << >> /\ saved_font # DefaultFont
             THEN [new EXCEPT ![1][1].font = saved_font]
             ELSE new

\* reintegrator.py:178-182, 188-192
WriteAggregate(frame, it) ==
    IF Strip(FrameText(frame)) # << >>
    THEN LET r == get_next(it) IN
            IF r.value.some
            THEN Written(replace_text_preserve_formatting(frame, r.value.text), r.it, 1)
            ELSE Written(frame, r.it, 0)
    ELSE Written(frame, it, 0)

\* reintegrator.py:187: for cell in row.cells
RECURSIVE WriteAggregateCells(_, _)
AggregateCellsAfter(first, cells) == Prepend(first, WriteAggregateCells(cells, first.it))

WriteAggregateCells(cells, it) ==
    IF cells = << >> THEN Written(<< >>, it, 0)
    ELSE AggregateCellsAfter(WriteAggregate(Head(cells), it), Tail(cells))

\* reintegrator.py:186: for row in shape.table.rows
RECURSIVE WriteAggregateRows(_, _)
AggregateRowsAfter(first, rows) == Prepend(first, WriteAggregateRows(rows, first.it))

WriteAggregateRows(rows, it) ==
    IF rows = << >> THEN Written(<< >>, it, 0)
    ELSE AggregateRowsAfter(WriteAggregateCells(Head(rows), it), Tail(rows))

\* reintegrator.py:177-182: the text frame of the shape, if it has one
AggregateFrameStep(shape, it) ==
    IF HasTextFrame(shape)
    THEN Written([shape EXCEPT !.text_frame = WriteAggregate(shape.text_frame, it).node],
                 WriteAggregate(shape.text_frame, it).it,
                 WriteAggregate(shape.text_frame, it).count)
    ELSE Written(shape, it, 0)

\* reintegrator.py:185-192: then its table, if it has one
AggregateTableStep(done) ==
    IF HasTable(done.node)
    THEN Written([done.node EXCEPT !.table = WriteAggregateRows(done.node.table, done.it).node],
                 WriteAggregateRows(done.node.table, done.it).it,
                 done.count + WriteAggregateRows(done.node.table, done.it).count)
    ELSE done

RECURSIVE reintegrator_reintegrate_text_into_shape(_, _)
RECURSIVE WriteAggregateSubShapes(_, _)
AggregateSubShapesAfter(first, subs) ==
    Prepend(first, WriteAggregateSubShapes(subs, first.it))

\* reintegrator.py:196: for sub_shape in shape.shapes
WriteAggregateSubShapes(subs, it) ==
    IF subs = << >> THEN Written(<< >>, it, 0)
    ELSE AggregateSubShapesAfter(reintegrator_reintegrate_text_into_shape(Head(subs), it),
                                 Tail(subs))

\* reintegrator.py:195-197: then the shapes of a group
AggregateSubShapesStep(done) ==
    IF HasShapes(done.node)
    THEN Written([done.node EXCEPT
                    !.shapes = WriteAggregateSubShapes(done.node.shapes, done.it).node],
                 WriteAggregateSubShapes(done.node.shapes, done.it).it,
                 done.count + WriteAggregateSubShapes(done.node.shapes, done.it).count)
    ELSE done

\* reintegrator.py:164-199
reintegrator_reintegrate_text_into_shape(shape, it) ==
    AggregateSubShapesStep(AggregateTableStep(AggregateFrameStep(shape, it)))

(***************************************************************************)
(* State.                                                                  *)
(***************************************************************************)
VARIABLES
    data,              \* the request structure (argument of translate_with_gemini)
    max_retries,       \* config.get_max_retries()
    initial_delay,     \* config.get_initial_delay()
    pc,                \* position: "prompt", "call", "answered", "parse_error",
                       \* "validate", "call_returned", "returned", "raised"
    retry_attempt,     \* argument of the current translate_with_gemini frame
    prompt,            \* the prompt of the current frame
    attempt,           \* loop variable of call_gemini_with_retry
    wait_time,         \* the wait computed last in call_gemini_with_retry
    last_exc,          \* the exception the backend raised last in this call ("none")
    last_response,     \* e.response of that exception
    calls,             \* backend calls made by the running call_gemini_with_retry
    sleeps,            \* backoff sleeps done by the running call_gemini_with_retry
    response,          \* the completion call_gemini_with_retry returned
    translated_data,   \* the parsed completion
    result,            \* the value translate_with_gemini returned
    error,             \* the exception that left the function
    requests,          \* translate_with_gemini frames that reached the backend call
    parse_retries,     \* retries taken at translator.py:359
    structure_retries, \* retries taken at translator.py:404
    last_outcome,      \* what the previous frame's response was: "none",
                       \* "unparsable", "mismatch"
    handler,           \* the reader/writer pair at work: "pptx", "docx", "aggregate"
    original,          \* the document as it is on disk at original_path
    document,          \* the document loaded by the writer, written in place
    text_iterator,     \* the TextIterator of the writer
    translated_text,   \* what get_next returned last, iterator on its own
    last_call,         \* the method called last, iterator on its own ("none")
    unit_idx,          \* the unit the writer's outer loop is at (0-based)
    shape_idx,         \* the top-level shapes of that unit already processed
    total_replaced,    \* total_replaced of the writer
    wpc,               \* position of the writer: "idle", "unit",
                       \* "summary", "done"
    output,            \* the document saved at output_path
    printed,           \* the lines reintegrate() has printed, by kind
    command,           \* the cli command running: "none", "translate", "translate_dir"
    doc_files,         \* the documents of the command, in processing order
    skip_existing,     \* --skip
    doc_idx,           \* the documents the loop is through with
    cpc,               \* position of the command: "idle", "loop", "handler",
                       \* "tmp_extract", "tmp_translate", "extract", "translate",
                       \* "reintegrate", "unlink", "except", "done", "exited"
    extracted_path,    \* the local of that name: a temporary file, 0 when unbound
    translated_path,   \* the local of that name: a temporary file, 0 when unbound
    tmp_files,         \* the temporary files of the command that exist
    next_tmp,          \* the temporary files created so far
    successful,        \* the counters and the list of translate_dir
    skipped,
    failed,
    failed_files,
    metered,           \* whether the backend counts the calls it gets
    backend_calls,     \* the calls a metered backend got since translate_with_gemini
                       \* was entered
    target_lang,       \* arguments of the current translate_with_gemini frame,
    source_lang,       \* None when left out
    style,
    topic,
    extraction,        \* result of the extract_text at work: the units appended so far
    extractions,       \* the structures the calls of extract_text returned, in order
    outcomes,          \* what became of each document: "pending", "skipped",
                       \* "completed", or the step that raised
    exit_code,         \* the status sys.exit was called with, -1 when it was not
    pipeline_log       \* for each document, in order: the steps of the pipeline
                       \* entered ("extract", "translate", "reintegrate") and the
                       \* files written ("extracted_json", "translated_json",
                       \* "output")

vars ==
    <<data, max_retries, initial_delay, pc, retry_attempt, prompt, attempt, wait_time,
      last_exc, last_response, calls, sleeps, response, translated_data, result, error, requests,
      parse_retries, structure_retries, last_outcome, handler, original, document,
      text_iterator, translated_text, last_call, unit_idx, shape_idx, total_replaced, wpc,
      output, printed, command, doc_files, skip_existing, doc_idx, cpc, extracted_path,
      translated_path, tmp_files, next_tmp, successful, skipped, failed, failed_files,
      outcomes, exit_code, extraction, extractions, metered, backend_calls,
      target_lang, source_lang, style, topic, pipeline_log>>

readerVars == <<extraction, extractions>>

configVars == <<data, max_retries, initial_delay, metered>>

callVars == <<attempt, wait_time, last_exc, last_response, calls, sleeps>>

historyVars == <<requests, parse_retries, structure_retries, last_outcome>>

translatorVars ==
    <<data, max_retries, initial_delay, pc, retry_attempt, prompt, attempt, wait_time,
      last_exc, last_response, calls, sleeps, response, translated_data, result, error,
      requests, parse_retries, structure_retries, last_outcome, metered, backend_calls,
      target_lang, source_lang, style, topic>>

\* the other arguments of the translate_with_gemini frame
argVars == <<target_lang, source_lang, style, topic>>

iteratorVars == <<text_iterator, translated_text, last_call>>

docVars ==
    <<handler, original, document, text_iterator, translated_text, last_call, unit_idx,
      shape_idx, total_replaced, wpc, output, printed>>

cliVars ==
    <<command, doc_files, skip_existing, doc_idx, cpc, extracted_path, translated_path,
      tmp_files, next_tmp, successful, skipped, failed, failed_files, outcomes, exit_code,
      pipeline_log>>

\* the None of an argument left out
None == "None"

NoError == [type |-> "none", what |-> "", item |-> 0, expected |-> 0, got |-> 0]

Raised(type, what) == [type |-> type, what |-> what, item |-> 0, expected |-> 0, got |-> 0]

NoCompletion == << >>

\* no command of the cli at work
ReaderIdle ==
    /\ extraction = << >>
    /\ extractions = << >>

CliIdle ==
    /\ ReaderIdle
    /\ command = "none"
    /\ doc_files = << >>
    /\ skip_existing = FALSE
    /\ doc_idx = 0
    /\ cpc = "idle"
    /\ extracted_path = 0
    /\ translated_path = 0
    /\ tmp_files = {}
    /\ next_tmp = 0
    /\ successful = 0
    /\ skipped = 0
    /\ failed = 0
    /\ failed_files = << >>
    /\ outcomes = << >>
    /\ exit_code = -1
    /\ pipeline_log = << >>

\* no writer at work
DocIdle ==
    /\ handler = "none"
    /\ original = << >>
    /\ document = << >>
    /\ text_iterator = TextIterator(NoDoc)
    /\ translated_text = NoText
    /\ last_call = "none"
    /\ unit_idx = 0
    /\ shape_idx = 0
    /\ total_replaced = 0
    /\ wpc = "idle"
    /\ output = << >>
    /\ printed = << >>

\* translator.py:289-291: the call translate_with_gemini(data, target_lang)
\* with the other arguments left out
DefaultArgs ==
    /\ target_lang = "es"
    /\ source_lang = None
    /\ style = None
    /\ topic = None

\* no translation at work
TranslatorIdle ==
    /\ data = NoDoc
    /\ max_retries = 0
    /\ initial_delay = default_initial_delay
    /\ pc = "idle"
    /\ retry_attempt = 0
    /\ prompt = NoPrompt
    /\ attempt = 0
    /\ wait_time = 0
    /\ last_exc = "none"
    /\ last_response = NoResponse
    /\ calls = 0
    /\ sleeps = 0
    /\ response = NoCompletion
    /\ translated_data = NoDoc
    /\ result = NoDoc
    /\ error = NoError
    /\ requests = 0
    /\ parse_retries = 0
    /\ structure_retries = 0
    /\ last_outcome = "none"
    /\ metered = FALSE
    /\ backend_calls = 0
    /\ DefaultArgs

\* translator.py:289-291, 437-439: translate() enters with retry_attempt = 0
Init ==
    /\ DocIdle
    /\ CliIdle
    /\ data \in Requests
    /\ max_retries \in {0, MaxRetriesInRun}
    /\ initial_delay = default_initial_delay
    /\ pc = "prompt"
    /\ retry_attempt = 0
    /\ prompt = NoPrompt
    /\ attempt = 0
    /\ wait_time = 0
    /\ last_exc = "none"
    /\ last_response = NoResponse
    /\ calls = 0
    /\ sleeps = 0
    /\ response = NoCompletion
    /\ translated_data = NoDoc
    /\ result = NoDoc
    /\ error = NoError
    /\ requests = 0
    /\ parse_retries = 0
    /\ structure_retries = 0
    /\ last_outcome = "none"
    /\ metered = FALSE
    /\ backend_calls = 0
    /\ DefaultArgs

\* translator.py:205, 222: call_gemini_with_retry entered on its own, with a
\* prompt in hand
InitCall ==
    /\ DocIdle
    /\ CliIdle
    /\ data = Doc("slides", <<<<SourceText>>>>, {})
    /\ max_retries \in 0..MaxRetriesCap
    /\ initial_delay \in InitialDelays
    /\ pc = "call"
    /\ retry_attempt = 0
    /\ prompt = get_translation_prompt(PromptParams).prompt
    /\ attempt = 0
    /\ wait_time = 0
    /\ last_exc = "none"
    /\ last_response = NoResponse
    /\ calls = 0
    /\ sleeps = 0
    /\ response = NoCompletion
    /\ translated_data = NoDoc
    /\ result = NoDoc
    /\ error = NoError
    /\ requests = 1
    /\ parse_retries = 0
    /\ structure_retries = 0
    /\ last_outcome = "none"
    /\ metered = FALSE
    /\ backend_calls = 0
    /\ DefaultArgs

(***************************************************************************)
(* call_gemini_with_retry, translator.py:205-286.                          *)
(***************************************************************************)
\* a metered backend has got one call more
CallsAfterOneMore == IF metered THEN backend_calls + 1 ELSE backend_calls

\* translator.py:229-244, 248-266, 270-279: the handler of a retryable
\* exception: wait and go round the loop while attempts remain, else re-raise.
\* time.sleep raises ValueError on a negative wait.
HandleRetryable(kind, resp, w) ==
    /\ pc = "call"
    /\ attempt < max_retries
    /\ calls' = calls + 1
    /\ last_exc' = kind
    /\ last_response' = resp
    /\ IF AttemptsRemain(attempt, max_retries)
       THEN /\ wait_time' = w
            /\ IF w >= 0
               THEN /\ sleeps' = sleeps + 1
                    /\ attempt' = attempt + 1
                    /\ pc' = "call"
                    /\ error' = error
               ELSE /\ sleeps' = sleeps
                    /\ attempt' = attempt
                    /\ pc' = "raised"
                    /\ error' = Raised("ValueError", "sleep length must be non-negative")
       ELSE /\ wait_time' = wait_time
            /\ sleeps' = sleeps
            /\ attempt' = attempt
            /\ pc' = "raised"
            /\ error' = Raised(kind, "backend")
    /\ backend_calls' = CallsAfterOneMore
    /\ UNCHANGED <<argVars, readerVars, cliVars, docVars, configVars, retry_attempt, prompt, response, translated_data, result,
                   historyVars>>

\* translator.py:227-244
RateLimited ==
    \E resp \in ErrorResponses :
        HandleRetryable("ResourceExhausted", resp,
                        ServerErrorWait(initial_delay, attempt, resp))

\* translator.py:246-266
ServiceError ==
    \E kind \in {"ServiceUnavailable", "InternalServerError"}, resp \in ErrorResponses :
        HandleRetryable(kind, resp, ServerErrorWait(initial_delay, attempt, resp))

\* TimedOut with the sleep left out: the next attempt starts at once
TimedOutWithoutSleep ==
    /\ pc = "call"
    /\ attempt < max_retries
    /\ calls' = calls + 1
    /\ last_exc' = TimeoutKind
    /\ last_response' \in ErrorResponses
    /\ IF AttemptsRemain(attempt, max_retries)
       THEN /\ attempt' = attempt + 1
            /\ pc' = "call"
            /\ error' = error
       ELSE /\ attempt' = attempt
            /\ pc' = "raised"
            /\ error' = Raised(TimeoutKind, "backend")
    /\ backend_calls' = CallsAfterOneMore
    /\ UNCHANGED <<argVars, readerVars, cliVars, docVars, configVars, retry_attempt, prompt, wait_time, sleeps, response,
                   translated_data, result, historyVars>>

\* translator.py:268-279: the exception's response is not looked at
TimedOut ==
    \E resp \in ErrorResponses :
        HandleRetryable(TimeoutKind, resp, TimeoutWait(initial_delay, attempt))

\* OtherError handled as the retryable exceptions are
OtherErrorRetried ==
    \E kind \in OtherKinds : HandleRetryable(kind, NoResponse, initial_delay * Pow2(attempt))

\* translator.py:281-284: any other exception is re-raised at once
OtherError ==
    \E kind \in OtherKinds :
        /\ pc = "call"
        /\ attempt < max_retries
        /\ calls' = calls + 1
        /\ last_exc' = kind
        /\ last_response' = NoResponse
        /\ pc' = "raised"
        /\ error' = Raised(kind, "backend")
        /\ backend_calls' = CallsAfterOneMore
        /\ UNCHANGED <<argVars, readerVars, cliVars, docVars, configVars, retry_attempt, prompt, attempt, wait_time, sleeps,
                       response, translated_data, result, historyVars>>

\* LoopExhausted without the raise after the loop: the function returns None
LoopExhaustedSilently ==
    /\ pc = "call"
    /\ attempt >= max_retries
    /\ pc' = "call_returned"
    /\ UNCHANGED <<argVars, backend_calls, readerVars, cliVars, docVars, configVars, retry_attempt, prompt, callVars, response,
                   translated_data, result, error, historyVars>>

\* translator.py:222, 286: the loop ends without a return or a raise only when
\* range(max_retries) is empty
LoopExhausted ==
    /\ pc = "call"
    /\ attempt >= max_retries
    /\ pc' = "raised"
    /\ error' = Raised("Exception", "Failed after max_retries retry attempts")
    /\ UNCHANGED <<argVars, backend_calls, readerVars, cliVars, docVars, configVars, retry_attempt, prompt, callVars, response,
                   translated_data, result, historyVars>>

\* translator.py:224-225: the backend answers and the response is returned to
\* the caller of call_gemini_with_retry, who sees what the call took
ReturnResponse ==
    \E text \in {ResponseText("bare", ProseLine), ResponseText("fenced", ProseLine)} :
        /\ pc = "call"
        /\ attempt < max_retries
        /\ calls' = calls + 1
        /\ response' = text
        /\ pc' = "call_returned"
        /\ backend_calls' = CallsAfterOneMore
        /\ UNCHANGED <<argVars, readerVars, cliVars, docVars, configVars, retry_attempt, prompt, attempt, wait_time, last_exc,
                       last_response, sleeps, translated_data, result, error, historyVars>>

NextCall ==
    \/ ReturnResponse
    \/ RateLimited
    \/ ServiceError
    \/ TimedOut
    \/ OtherError
    \/ LoopExhausted

\* call_gemini_with_retry on its own
SpecCall == InitCall /\ [][NextCall]_vars

(***************************************************************************)
(* translate_with_gemini, translator.py:289-413.                           *)
(***************************************************************************)
\* translator.py:305-324 with the prompt builder of translation_prompts.py:
\* the call at line 316 passes retry_attempt= and config=, the TypeError
\* leaves translate_with_gemini before any backend call
BuildPrompt ==
    /\ pc = "prompt"
    /\ LET built == get_translation_prompt(PromptCallArgs) IN
        IF built.raised
        THEN /\ pc' = "raised"
             /\ error' = Raised("TypeError", "unexpected keyword argument")
             /\ UNCHANGED <<prompt, requests>>
        ELSE /\ pc' = "call"
             /\ prompt' = built.prompt
             /\ requests' = requests + 1
             /\ error' = error
    /\ UNCHANGED <<argVars, backend_calls, readerVars, cliVars, docVars, configVars, retry_attempt, callVars, response, translated_data, result,
                   parse_retries, structure_retries, last_outcome>>

\* translator.py:305-331 with the prompt builder of the design, which takes the
\* retry attempt: the frame builds its prompt and enters call_gemini_with_retry
BuildRetryAwarePrompt ==
    /\ pc = "prompt"
    /\ prompt' = RetryAwarePrompt(retry_attempt)
    /\ requests' = requests + 1
    /\ pc' = "call"
    /\ UNCHANGED <<argVars, backend_calls, readerVars, cliVars, docVars, configVars, retry_attempt, callVars, response, translated_data, result,
                   error, parse_retries, structure_retries, last_outcome>>

\* translator.py:224-225, 331: the backend answers and call_gemini_with_retry
\* returns the response into translate_with_gemini; its frame is gone, its
\* locals with it
CallReturns ==
    /\ pc = "call"
    /\ attempt < max_retries
    /\ pc' = "answered"
    /\ attempt' = 0
    /\ wait_time' = 0
    /\ last_exc' = "none"
    /\ last_response' = NoResponse
    /\ calls' = 0
    /\ sleeps' = 0
    /\ backend_calls' = CallsAfterOneMore
    /\ UNCHANGED <<argVars, readerVars, cliVars, docVars, configVars, retry_attempt, prompt, response,
                   translated_data, result, error, historyVars>>

\* translator.py:333-343: the text of the response is stripped of its code
\* fence and parsed; what the completion holds is settled when it is read
ParseResponse ==
    \E text \in Completions :
        /\ pc = "answered"
        /\ AnswersTo(data, text)
        /\ response' = text
        /\ LET response_text == StripCodeFence(text) IN
            IF JsonParses(response_text)
            THEN /\ translated_data' = JsonLoads(response_text)
                 /\ pc' = "validate"
            ELSE /\ translated_data' = NoDoc
                 /\ pc' = "parse_error"
        /\ UNCHANGED <<argVars, backend_calls, readerVars, cliVars, docVars, configVars, retry_attempt, prompt, callVars,
                       result, error, historyVars>>

\* translator.py:88-94: the configured style and topic, here the defaults
get_translation_style == "direct"

get_translation_topic == "general"

\* ResolvedStyle with the configured style put over the argument
ResolvedStyleConfigured == get_translation_style

\* translator.py:309-312: the style and the topic of the frame, the
\* configured ones when the argument is None
ResolvedStyle == IF style = None THEN get_translation_style ELSE style

ResolvedTopic == IF topic = None THEN get_translation_topic ELSE topic

\* the recursive call translate_with_gemini(..., retry_attempt + 1, ...) of
\* translator.py:359 and 404, whose value or exception the caller hands on
Reissue(outcome) ==
    /\ retry_attempt' = retry_attempt + 1
    /\ pc' = "prompt"
    /\ prompt' = NoPrompt
    /\ translated_data' = NoDoc
    /\ last_outcome' = outcome
    /\ response' = NoCompletion
    /\ target_lang' = target_lang
    /\ source_lang' = source_lang
    /\ style' = ResolvedStyle
    /\ topic' = ResolvedTopic
    /\ UNCHANGED <<backend_calls, readerVars, cliVars, docVars, configVars, callVars, result, error, requests>>

\* translator.py:355-359
ParseRetry ==
    /\ pc = "parse_error"
    /\ CanRetryParse(retry_attempt)
    /\ parse_retries' = parse_retries + 1
    /\ structure_retries' = structure_retries
    /\ Reissue("unparsable")

\* a raise of translate_with_gemini
Fail(e) ==
    /\ pc' = "raised"
    /\ error' = e
    /\ UNCHANGED <<argVars, backend_calls, readerVars, cliVars, docVars, configVars, retry_attempt, prompt, callVars, response, translated_data,
                   result, historyVars>>

\* translator.py:361-365
ParseFatal ==
    /\ pc = "parse_error"
    /\ ~CanRetryParse(retry_attempt)
    /\ Fail([Raised("ValueError", "Failed to parse Gemini response as JSON")
                EXCEPT !.got = retry_attempt + 1])

\* translator.py:371: the response has no list under the request's root key
RootKeyMissing ==
    /\ pc = "validate"
    /\ ~HasRootKey(data, translated_data)
    /\ Fail(Raised("KeyError", data.key))

\* translator.py:371-375
UnitCountMismatch ==
    /\ pc = "validate"
    /\ HasRootKey(data, translated_data)
    /\ ~SameUnitCount(data, translated_data)
    /\ Fail([Raised("ValueError", "count mismatch")
                EXCEPT !.expected = Len(data.units), !.got = Len(translated_data.units)])

\* translator.py:377-380: the loop reaches a unit whose fragment counts differ
MismatchFound ==
    /\ pc = "validate"
    /\ HasRootKey(data, translated_data)
    /\ SameUnitCount(data, translated_data)
    /\ MismatchedUnits(data, translated_data) # {}

\* translator.py:377-379: the loop reaches a unit of the response that has no
\* "texts"; the lookup raises before the counts are compared, outside the
\* retry
TextsMissing ==
    /\ pc = "validate"
    /\ HasRootKey(data, translated_data)
    /\ SameUnitCount(data, translated_data)
    /\ MismatchedUnits(data, translated_data) = {}
    /\ TextlessUnits(data, translated_data) # {}
    /\ Fail(Raised("KeyError", "texts"))

\* translator.py:397-404
StructureRetry ==
    /\ MismatchFound
    /\ CanRetryStructure(retry_attempt)
    /\ structure_retries' = structure_retries + 1
    /\ parse_retries' = parse_retries
    /\ Reissue("mismatch")

\* translator.py:406-411: the error names the unit 1-based (i + 1)
StructureFatal ==
    /\ MismatchFound
    /\ ~CanRetryStructure(retry_attempt)
    /\ LET i == FirstMismatch(data, translated_data) IN
        Fail([type |-> "ValueError", what |-> "Text count mismatch", item |-> i,
              expected |-> Len(data.units[i]), got |-> Len(translated_data.units[i])])

\* translator.py:413
Accept ==
    /\ pc = "validate"
    /\ HasRootKey(data, translated_data)
    /\ SameUnitCount(data, translated_data)
    /\ MismatchedUnits(data, translated_data) = {}
    /\ TextlessUnits(data, translated_data) = {}
    /\ pc' = "returned"
    /\ result' = translated_data
    /\ UNCHANGED <<argVars, backend_calls, readerVars, cliVars, docVars, configVars, retry_attempt, prompt, callVars, response, translated_data,
                   error, historyVars>>

\* the retry protocol, entered with a prompt for every attempt
Next ==
    \/ BuildRetryAwarePrompt
    \/ CallReturns
    \/ ParseResponse
    \/ RateLimited
    \/ ServiceError
    \/ TimedOut
    \/ OtherError
    \/ LoopExhausted
    \/ ParseRetry
    \/ ParseFatal
    \/ RootKeyMissing
    \/ UnitCountMismatch
    \/ TextsMissing
    \/ StructureRetry
    \/ StructureFatal
    \/ Accept

Spec == Init /\ [][Next]_vars

\* translate_with_gemini entered with a backend that counts its calls, for a
\* presentation of one slide
InitBudget ==
    /\ DocIdle
    /\ CliIdle
    /\ data \in {X \in Requests : X.key = "slides" /\ Len(X.units) = 1}
    /\ max_retries \in 0..MaxRetriesInRun
    /\ initial_delay = default_initial_delay
    /\ pc = "prompt"
    /\ retry_attempt = 0
    /\ prompt = NoPrompt
    /\ attempt = 0
    /\ wait_time = 0
    /\ last_exc = "none"
    /\ last_response = NoResponse
    /\ calls = 0
    /\ sleeps = 0
    /\ response = NoCompletion
    /\ translated_data = NoDoc
    /\ result = NoDoc
    /\ error = NoError
    /\ requests = 0
    /\ parse_retries = 0
    /\ structure_retries = 0
    /\ last_outcome = "none"
    /\ metered = TRUE
    /\ backend_calls = 0
    /\ DefaultArgs

\* the program is sequential and every step of it ends: the backend answers
\* or raises (a timeout is an exception), a sleep is over after its time
SpecBudget == InitBudget /\ [][Next]_vars /\ WF_vars(Next)

\* the language codes of the calls explored
Languages == {"es", "en"}

\* translate_with_gemini entered with any of its optional arguments given or
\* left out, for a presentation of one slide
InitArgs ==
    /\ DocIdle
    /\ CliIdle
    /\ data \in {X \in Requests : X.key = "slides" /\ Len(X.units) = 1}
    /\ max_retries \in {0, 1}
    /\ initial_delay = default_initial_delay
    /\ pc = "prompt"
    /\ retry_attempt = 0
    /\ prompt = NoPrompt
    /\ attempt = 0
    /\ wait_time = 0
    /\ last_exc = "none"
    /\ last_response = NoResponse
    /\ calls = 0
    /\ sleeps = 0
    /\ response = NoCompletion
    /\ translated_data = NoDoc
    /\ result = NoDoc
    /\ error = NoError
    /\ requests = 0
    /\ parse_retries = 0
    /\ structure_retries = 0
    /\ last_outcome = "none"
    /\ metered = FALSE
    /\ backend_calls = 0
    /\ target_lang \in Languages
    /\ source_lang \in {None} \cup Languages
    /\ style \in {None, "formal"}
    /\ topic \in {None, "legal"}

SpecArgs == InitArgs /\ [][Next]_vars

\* translate_with_gemini with the prompt builder of translation_prompts.py:
\* its first step is its last
SpecSrc == Init /\ [][BuildPrompt]_vars

(***************************************************************************)
(* The text iterator on its own, its two methods called in any order.      *)
(***************************************************************************)
\* the translated structures handed to an iterator on its own
IteratorData == {[key |-> "slides", units |-> Fill(sh, <<"x">>)] : sh \in Shapes}

InitIter ==
    /\ TranslatorIdle
    /\ CliIdle
    /\ handler = "none"
    /\ original = << >>
    /\ document = << >>
    /\ \E td \in IteratorData : text_iterator = TextIterator(td)
    /\ translated_text = NoText
    /\ last_call = "none"
    /\ unit_idx = 0
    /\ shape_idx = 0
    /\ total_replaced = 0
    /\ wpc = "idle"
    /\ output = << >>
    /\ printed = << >>

\* a call of get_next
IterGetNext ==
    /\ wpc = "idle"
    /\ LET r == get_next(text_iterator) IN
        /\ translated_text' = r.value
        /\ text_iterator' = r.it
    /\ last_call' = "get_next"
    /\ UNCHANGED <<readerVars, cliVars, translatorVars, handler, original, document, unit_idx, shape_idx,
                   total_replaced, wpc, output, printed>>

\* a call of next_slide
IterNextSlide ==
    /\ wpc = "idle"
    /\ text_iterator.current_slide < Len(text_iterator.slides) + MaxCursorOverrun
    /\ text_iterator' = next_slide(text_iterator)
    /\ last_call' = "next_slide"
    /\ UNCHANGED <<readerVars, cliVars, translatorVars, handler, original, document, translated_text, unit_idx,
                   shape_idx, total_replaced, wpc, output, printed>>

NextIter ==
    \/ IterGetNext
    \/ IterNextSlide

SpecIter == InitIter /\ [][NextIter]_vars

(***************************************************************************)
(* The writers: PPTXHandler.reintegrate_text (pptx_handler.py:153-181),    *)
(* DOCXHandler.reintegrate_text (docx_handler.py:109-145) and              *)
(* reintegrate_text_into_pptx (reintegrator.py:202-227), each under its    *)
(* caller reintegrate (base_handler.py:82-102, reintegrator.py:243-266).   *)
(***************************************************************************)
Handlers == {"pptx", "docx", "aggregate"}

Documents(h) == IF h = "docx" THEN WordDocuments ELSE Presentations

\* the reader that goes with a writer
ExtractText(h, doc) ==
    CASE h = "pptx" -> PPTXExtractText(doc)
      [] h = "docx" -> DOCXExtractText(doc)
      [] h = "aggregate" -> extract_text_from_pptx(doc)

DigitChar ==
    [n \in 0..9 |-> CASE n = 0 -> "0" [] n = 1 -> "1" [] n = 2 -> "2" [] n = 3 -> "3"
                       [] n = 4 -> "4" [] n = 5 -> "5" [] n = 6 -> "6" [] n = 7 -> "7"
                       [] n = 8 -> "8" [] n = 9 -> "9"]

\* a translation of fragment j of unit i that is found nowhere else
Tag(i, j) == <<"t", DigitChar[i], DigitChar[j]>>

ExtraText == <<"e">>

\* translations of the extracted structure X: every fragment another text
Tagged(X) ==
    [X EXCEPT !.units = [i \in 1..Len(X.units) |-> [j \in 1..Len(X.units[i]) |-> Tag(i, j)]]]

\* the first fragment of every unit translated to the empty string
Blanked(X) ==
    [X EXCEPT !.units = [i \in 1..Len(X.units) |->
        [j \in 1..Len(X.units[i]) |-> IF j = 1 THEN << >> ELSE Tag(i, j)]]]

\* the translated structures handed to a writer of a document whose
\* extraction is X: X itself, translations of the same shape, and ones with
\* a fragment or a unit too few or too many
Translations(X) ==
    LET T == Tagged(X) IN
        {X, T, Blanked(X)}
            \cup {[T EXCEPT !.units[i] = SubSeq(@, 1, Len(@) - 1)] :
                        i \in {i \in 1..Len(X.units) : X.units[i] # << >>}}
            \cup {[T EXCEPT !.units[i] = Append(@, ExtraText)] : i \in 1..Len(X.units)}
            \cup {[T EXCEPT !.units = SubSeq(@, 1, Len(@) - 1)] : i \in {1} \cap 1..Len(X.units)}
            \cup {[T EXCEPT !.units = Append(@, <<ExtraText>>)]}

\* the state when the writer has loaded the document and built its iterator
\* (pptx_handler.py:164-167, docx_handler.py:121-125, reintegrator.py:210-213)
InitDoc ==
    /\ TranslatorIdle
    /\ CliIdle
    /\ handler \in Handlers
    /\ original \in Documents(handler)
    /\ document = original
    /\ \E td \in Translations(ExtractText(handler, original)) :
            text_iterator = TextIterator(td)
    /\ translated_text = NoText
    /\ last_call = "none"
    /\ unit_idx = 0
    /\ shape_idx = 0
    /\ total_replaced = 0
    /\ wpc = "unit"
    /\ output = << >>
    /\ printed = << >>

\* the units the loops of the writer go through
NumUnits(h, doc) ==
    IF h = "docx"
    THEN Len(doc.paragraphs) + Len(DocxTableParagraphs(doc.tables))
    ELSE Len(doc)

\* the top-level nodes of unit u (1-based): the shapes of a slide, the
\* paragraph itself
NumShapes(h, doc, u) == IF h = "docx" THEN 1 ELSE Len(doc[u])

\* pptx_handler.py:171-173: one round of the loop over slide.shapes
WriteShape ==
    /\ handler = "pptx"
    /\ wpc = "unit"
    /\ unit_idx < NumUnits(handler, document)
    /\ shape_idx < NumShapes(handler, document, unit_idx + 1)
    /\ LET w == reintegrate_text_into_shape(document[unit_idx + 1][shape_idx + 1],
                                            text_iterator) IN
        /\ document' = [document EXCEPT ![unit_idx + 1][shape_idx + 1] = w.node]
        /\ text_iterator' = w.it
        /\ total_replaced' = total_replaced + w.count
    /\ shape_idx' = shape_idx + 1
    /\ UNCHANGED <<readerVars, cliVars, translatorVars, handler, original, translated_text, last_call, unit_idx,
                   wpc, output, printed>>

\* reintegrator.py:217-219: one round of the loop over slide.shapes
WriteAggregateShape ==
    /\ handler = "aggregate"
    /\ wpc = "unit"
    /\ unit_idx < NumUnits(handler, document)
    /\ shape_idx < NumShapes(handler, document, unit_idx + 1)
    /\ LET w == reintegrator_reintegrate_text_into_shape(
                    document[unit_idx + 1][shape_idx + 1], text_iterator) IN
        /\ document' = [document EXCEPT ![unit_idx + 1][shape_idx + 1] = w.node]
        /\ text_iterator' = w.it
        /\ total_replaced' = total_replaced + w.count
    /\ shape_idx' = shape_idx + 1
    /\ UNCHANGED <<readerVars, cliVars, translatorVars, handler, original, translated_text, last_call, unit_idx,
                   wpc, output, printed>>

\* docx_handler.py:128-130, 134-139: the paragraph of this round, of the body
\* first and of the table cells then, is written
WriteParagraph ==
    /\ handler = "docx"
    /\ wpc = "unit"
    /\ unit_idx < NumUnits(handler, document)
    /\ shape_idx = 0
    /\ IF unit_idx < Len(document.paragraphs)
       THEN LET w == replace_runs_with_text_list(document.paragraphs[unit_idx + 1],
                                                 text_iterator) IN
            /\ document' = [document EXCEPT !.paragraphs[unit_idx + 1] = w.node]
            /\ text_iterator' = w.it
            /\ total_replaced' = total_replaced + w.count
       ELSE LET at == DocxTableParagraphs(document.tables)[unit_idx - Len(document.paragraphs) + 1]
                w == replace_runs_with_text_list(
                        document.tables[at[1]][at[2]][at[3]][at[4]], text_iterator) IN
            /\ document' = [document EXCEPT !.tables[at[1]][at[2]][at[3]][at[4]] = w.node]
            /\ text_iterator' = w.it
            /\ total_replaced' = total_replaced + w.count
    /\ shape_idx' = 1
    /\ UNCHANGED <<readerVars, cliVars, translatorVars, handler, original, translated_text, last_call, unit_idx,
                   wpc, output, printed>>

\* pptx_handler.py:176, docx_handler.py:131, 140, reintegrator.py:222: the
\* nodes of the unit are done, the iterator moves to the next unit
AdvanceUnit ==
    /\ wpc = "unit"
    /\ unit_idx < NumUnits(handler, document)
    /\ shape_idx = NumShapes(handler, document, unit_idx + 1)
    /\ text_iterator' = next_slide(text_iterator)
    /\ unit_idx' = unit_idx + 1
    /\ shape_idx' = 0
    /\ UNCHANGED <<readerVars, cliVars, translatorVars, handler, original, document, translated_text, last_call,
                   total_replaced, wpc, output, printed>>

\* pptx_handler.py:179-181, docx_handler.py:143-145, reintegrator.py:225-227:
\* the document is saved and the count returned
Save ==
    /\ wpc = "unit"
    /\ unit_idx = NumUnits(handler, document)
    /\ output' = document
    /\ wpc' = "summary"
    /\ UNCHANGED <<readerVars, cliVars, translatorVars, handler, original, document, iteratorVars, unit_idx,
                   shape_idx, total_replaced, printed>>

\* the fragments of a translated structure
RECURSIVE SumLen(_)
SumLen(units) == IF units = << >> THEN 0 ELSE Len(Head(units)) + SumLen(Tail(units))

\* base_handler.py:92-102: print_reintegration_summary
HandlerSummary ==
    /\ handler \in {"pptx", "docx"}
    /\ wpc = "summary"
    /\ printed' = <<"replaced", "saved">>
    /\ wpc' = "done"
    /\ UNCHANGED <<readerVars, cliVars, translatorVars, handler, original, document, iteratorVars, unit_idx,
                   shape_idx, total_replaced, output>>

\* reintegrator.py:259-266
ReintegratorSummary ==
    /\ handler = "aggregate"
    /\ wpc = "summary"
    /\ LET total_expected == SumLen(text_iterator.slides) IN
        printed' = <<"replaced">>
                    \o (IF total_replaced # total_expected THEN <<"warning">> ELSE << >>)
                    \o <<"saved">>
    /\ wpc' = "done"
    /\ UNCHANGED <<readerVars, cliVars, translatorVars, handler, original, document, iteratorVars, unit_idx,
                   shape_idx, total_replaced, output>>

NextDoc ==
    \/ WriteShape
    \/ WriteAggregateShape
    \/ WriteParagraph
    \/ AdvanceUnit
    \/ Save
    \/ HandlerSummary
    \/ ReintegratorSummary

SpecDoc == InitDoc /\ [][NextDoc]_vars

(***************************************************************************)
(* The commands translate (cli.py:158-198) and translate-dir               *)
(* (cli.py:233-384): the pipeline of one document, and the loop over the   *)
(* documents found.                                                        *)
(***************************************************************************)
cliConfig == <<command, doc_files, skip_existing>>

cliCounters == <<successful, skipped, failed, failed_files>>

cliTemps == <<extracted_path, translated_path, tmp_files, next_tmp>>

\* a document of the command: whether its extension has a handler
\* (cli.py:33-41) and whether its output file exists (cli.py:316)
DocFile(supported, exists) == [supported |-> supported, output_exists |-> exists]

\* cli.py:266-273: the documents found by *.pptx and *.docx, at least one
BatchFiles == UNION {[1..n -> {DocFile(TRUE, e) : e \in BOOLEAN}] : n \in 1..MaxBatch}

\* cli.py:255-257, 276-296: the flags with which the loop is reached
FlagsAllowed(files, skip, overwrite) ==
    /\ ~(skip /\ overwrite)
    /\ (~skip /\ ~overwrite) => \A i \in 1..Len(files) : ~files[i].output_exists

\* the state at cli.py:162 (translate) and at cli.py:311 (translate_dir)
InitCli ==
    /\ TranslatorIdle
    /\ DocIdle
    /\ ReaderIdle
    /\ \/ /\ command = "translate"
          /\ doc_files \in {<<DocFile(s, e)>> : s \in BOOLEAN, e \in BOOLEAN}
          /\ skip_existing = FALSE
          /\ cpc = "handler"
       \/ /\ command = "translate_dir"
          /\ doc_files \in BatchFiles
          /\ skip_existing \in BOOLEAN
          /\ \E overwrite_existing \in BOOLEAN :
                FlagsAllowed(doc_files, skip_existing, overwrite_existing)
          /\ cpc = "loop"
    /\ doc_idx = 0
    /\ extracted_path = 0
    /\ translated_path = 0
    /\ tmp_files = {}
    /\ next_tmp = 0
    /\ successful = 0
    /\ skipped = 0
    /\ failed = 0
    /\ failed_files = << >>
    /\ outcomes = [i \in 1..Len(doc_files) |-> "pending"]
    /\ exit_code = -1
    /\ pipeline_log = [i \in 1..Len(doc_files) |-> << >>]

\* the document the pipeline is at
Current == doc_idx + 1

\* a step of the pipeline raises: control goes to the except clause
Raise(step) ==
    /\ cpc' = "except"
    /\ outcomes' = [outcomes EXCEPT ![Current] = step]

\* cli.py:316-319
SkipDocument ==
    /\ cpc = "loop"
    /\ doc_idx < Len(doc_files)
    /\ doc_files[Current].output_exists /\ skip_existing
    /\ skipped' = skipped + 1
    /\ outcomes' = [outcomes EXCEPT ![Current] = "skipped"]
    /\ doc_idx' = doc_idx + 1
    /\ UNCHANGED <<pipeline_log, readerVars, translatorVars, docVars, cliConfig, cpc, cliTemps, successful, failed,
                   failed_files, exit_code>>

\* cli.py:311-326
BeginDocument ==
    /\ cpc = "loop"
    /\ doc_idx < Len(doc_files)
    /\ ~(doc_files[Current].output_exists /\ skip_existing)
    /\ cpc' = "handler"
    /\ UNCHANGED <<pipeline_log, readerVars, translatorVars, docVars, cliConfig, doc_idx, cliTemps, cliCounters,
                   outcomes, exit_code>>

\* cli.py:162, 328: get_handler_for_file raises ValueError for another
\* extension
GetHandler ==
    /\ cpc = "handler"
    /\ IF doc_files[Current].supported
       THEN cpc' = "tmp_extract" /\ outcomes' = outcomes
       ELSE Raise("handler")
    /\ UNCHANGED <<pipeline_log, readerVars, translatorVars, docVars, cliConfig, doc_idx, cliTemps, cliCounters,
                   exit_code>>

\* cli.py:165-166, 331-332: a new file of a name not used before, unless the
\* creation fails
CreateTmpExtract ==
    /\ cpc = "tmp_extract"
    /\ \/ /\ extracted_path' = next_tmp + 1
          /\ tmp_files' = tmp_files \cup {next_tmp + 1}
          /\ next_tmp' = next_tmp + 1
          /\ cpc' = "tmp_translate"
          /\ outcomes' = outcomes
       \/ /\ Raise("tmp_extract")
          /\ UNCHANGED <<extracted_path, tmp_files, next_tmp>>
    /\ UNCHANGED <<pipeline_log, readerVars, translatorVars, docVars, cliConfig, doc_idx, translated_path, cliCounters,
                   exit_code>>

\* cli.py:168-169, 334-337
CreateTmpTranslate ==
    /\ cpc = "tmp_translate"
    /\ \/ /\ translated_path' = next_tmp + 1
          /\ tmp_files' = tmp_files \cup {next_tmp + 1}
          /\ next_tmp' = next_tmp + 1
          /\ cpc' = "extract"
          /\ outcomes' = outcomes
       \/ /\ Raise("tmp_translate")
          /\ UNCHANGED <<translated_path, tmp_files, next_tmp>>
    /\ UNCHANGED <<pipeline_log, readerVars, translatorVars, docVars, cliConfig, doc_idx, extracted_path, cliCounters,
                   exit_code>>

\* the events join the log of the document the pipeline is at
Logged(events) ==
    pipeline_log' = [pipeline_log EXCEPT ![Current] = @ \o events]

\* Extract outside the try block: the pipeline goes on after a failure
ExtractFailureIgnored ==
    /\ cpc = "extract"
    /\ \/ /\ cpc' = "translate" /\ outcomes' = outcomes
          /\ Logged(<<"extract", "extracted_json">>)
       \/ /\ cpc' = "translate" /\ outcomes' = [outcomes EXCEPT ![Current] = "extract"]
          /\ Logged(<<"extract">>)
    /\ UNCHANGED <<readerVars, translatorVars, docVars, cliConfig, doc_idx, cliTemps, cliCounters,
                   exit_code>>

\* cli.py:172, 340: handler.extract returns or raises; base_handler.py:41-43:
\* it writes the extracted JSON after extract_text and before its summary
Extract ==
    /\ cpc = "extract"
    /\ \/ /\ cpc' = "translate" /\ outcomes' = outcomes
          /\ Logged(<<"extract", "extracted_json">>)
       \/ /\ Raise("extract")
          /\ \/ Logged(<<"extract">>)
             \/ Logged(<<"extract", "extracted_json">>)
    /\ UNCHANGED <<readerVars, translatorVars, docVars, cliConfig, doc_idx, cliTemps, cliCounters,
                   exit_code>>

\* cli.py:175-177, 343-345: translator.translate raises; translator.py:431-441:
\* in load_json, in translate_with_gemini or in save_json, the translated
\* JSON unwritten
TranslateRaises ==
    /\ cpc = "translate"
    /\ Raise("translate")
    /\ Logged(<<"translate">>)
    /\ UNCHANGED <<readerVars, translatorVars, docVars, cliConfig, doc_idx, cliTemps, cliCounters,
                   exit_code>>

\* translator.translate returns: with the prompt builder of the design,
\* translate_with_gemini gets as far as returning, and translator.py:441
\* saves what it returned
TranslateReturns ==
    /\ cpc = "translate"
    /\ cpc' = "reintegrate"
    /\ Logged(<<"translate", "translated_json">>)
    /\ UNCHANGED <<readerVars, translatorVars, docVars, cliConfig, doc_idx, cliTemps, cliCounters,
                   outcomes, exit_code>>

\* cli.py:180, 348: handler.reintegrate returns, the pipeline of the document
\* is through, or raises; base_handler.py:90-92: before reintegrate_text has
\* saved the document or after
Reintegrate ==
    /\ cpc = "reintegrate"
    /\ \/ /\ cpc' = "unlink"
          /\ outcomes' = [outcomes EXCEPT ![Current] = "completed"]
          /\ Logged(<<"reintegrate", "output">>)
       \/ /\ Raise("reintegrate")
          /\ \/ Logged(<<"reintegrate">>)
             \/ Logged(<<"reintegrate", "output">>)
    /\ UNCHANGED <<readerVars, translatorVars, docVars, cliConfig, doc_idx, cliTemps, cliCounters,
                   exit_code>>

\* cli.py:183-186, 351-355: os.unlink of the two files, which raises for a
\* file that does not exist; then the success is reported and counted
UnlinkTemps ==
    /\ cpc = "unlink"
    /\ IF extracted_path \in tmp_files /\ translated_path \in tmp_files
       THEN /\ tmp_files' = tmp_files \ {extracted_path, translated_path}
            /\ outcomes' = outcomes
            /\ IF command = "translate_dir"
               THEN /\ successful' = successful + 1
                    /\ doc_idx' = doc_idx + 1
                    /\ cpc' = "loop"
                    /\ exit_code' = exit_code
               ELSE /\ cpc' = "done"
                    /\ exit_code' = 0
                    /\ UNCHANGED <<successful, doc_idx>>
       ELSE /\ tmp_files' = tmp_files \ {extracted_path}
            /\ Raise("unlink")
            /\ UNCHANGED <<successful, doc_idx, exit_code>>
    /\ UNCHANGED <<pipeline_log, readerVars, translatorVars, docVars, cliConfig, extracted_path, translated_path,
                   next_tmp, skipped, failed, failed_files>>

\* Cleanup that removes the extraction file only
CleanupExtractedOnly(files, extracted, translated) ==
    IF extracted # 0 THEN files \ {extracted} ELSE files

\* cli.py:191-197, 363-369: the locals that are bound are unlinked, the
\* first unlink that raises ends the cleanup
Cleanup(files, extracted, translated) ==
    IF extracted # 0 /\ extracted \notin files THEN files
    ELSE (files \ {extracted}) \ (IF translated # 0 THEN {translated} ELSE {})

\* HandleFailure that ends the loop at the first failure
HandleFailureStopping ==
    /\ cpc = "except"
    /\ tmp_files' = Cleanup(tmp_files, extracted_path, translated_path)
    /\ IF command = "translate_dir"
       THEN /\ failed' = failed + 1
            /\ failed_files' = Append(failed_files, Current)
            /\ doc_idx' = Len(doc_files)
            /\ cpc' = "loop"
            /\ exit_code' = exit_code
       ELSE /\ cpc' = "exited"
            /\ exit_code' = 1
            /\ UNCHANGED <<failed, failed_files, doc_idx>>
    /\ UNCHANGED <<pipeline_log, readerVars, translatorVars, docVars, cliConfig, extracted_path, translated_path,
                   next_tmp, successful, skipped, outcomes>>

\* cli.py:188-198: the error is printed, the files removed and the command
\* exits with 1; cli.py:357-371: the failure is counted and listed, the files
\* removed and the loop goes on
HandleFailure ==
    /\ cpc = "except"
    /\ tmp_files' = Cleanup(tmp_files, extracted_path, translated_path)
    /\ IF command = "translate_dir"
       THEN /\ failed' = failed + 1
            /\ failed_files' = Append(failed_files, Current)
            /\ doc_idx' = doc_idx + 1
            /\ cpc' = "loop"
            /\ exit_code' = exit_code
       ELSE /\ cpc' = "exited"
            /\ exit_code' = 1
            /\ UNCHANGED <<failed, failed_files, doc_idx>>
    /\ UNCHANGED <<pipeline_log, readerVars, translatorVars, docVars, cliConfig, extracted_path, translated_path,
                   next_tmp, successful, skipped, outcomes>>

\* cli.py:373-384: the loop is over, the summary is printed
Summary ==
    /\ cpc = "loop"
    /\ doc_idx = Len(doc_files)
    /\ cpc' = "done"
    /\ exit_code' = 0
    /\ UNCHANGED <<pipeline_log, readerVars, translatorVars, docVars, cliConfig, doc_idx, cliTemps, cliCounters,
                   outcomes>>

NextCli ==
    \/ SkipDocument
    \/ BeginDocument
    \/ GetHandler
    \/ CreateTmpExtract
    \/ CreateTmpTranslate
    \/ Extract
    \/ TranslateRaises
    \/ TranslateReturns
    \/ Reintegrate
    \/ UnlinkTemps
    \/ HandleFailure
    \/ Summary

SpecCli == InitCli /\ [][NextCli]_vars

(***************************************************************************)
(* The readers: PPTXHandler.extract_text (pptx_handler.py:118-142),        *)
(* DOCXHandler.extract_text (docx_handler.py:63-98) and                    *)
(* extract_text_from_pptx (extractor.py:40-64), called on one document     *)
(* time and again.  An action is one round of the loop over the units.     *)
(***************************************************************************)
\* the state when the reader has loaded the document and result is empty
\* (pptx_handler.py:127-129, docx_handler.py:72-74)
InitRead ==
    /\ TranslatorIdle
    /\ CliIdle
    /\ handler \in Handlers
    /\ original \in Documents(handler)
    /\ document = original
    /\ text_iterator = TextIterator(NoDoc)
    /\ translated_text = NoText
    /\ last_call = "none"
    /\ unit_idx = 0
    /\ shape_idx = 0
    /\ total_replaced = 0
    /\ wpc = "read"
    /\ output = << >>
    /\ printed = << >>

\* what a round of a reader leaves alone
readerFrame ==
    <<translatorVars, cliVars, handler, original, document, iteratorVars, shape_idx,
      total_replaced, wpc, output, printed, extractions>>

\* ReadSlide that returns no unit for a slide without texts
ReadSlideSkippingEmpty ==
    /\ handler = "pptx"
    /\ wpc = "read"
    /\ unit_idx < Len(document)
    /\ extraction' =
            extraction \o
            (IF \A k \in 1..Len(document[unit_idx + 1]) :
                    extract_text_from_shape(document[unit_idx + 1][k]) = << >>
             THEN << >>
             ELSE <<Concat([k \in 1..Len(document[unit_idx + 1]) |->
                        extract_text_from_shape(document[unit_idx + 1][k])])>>)
    /\ unit_idx' = unit_idx + 1
    /\ UNCHANGED readerFrame

\* pptx_handler.py:131-140: the texts of the shapes of one slide, in the
\* order of slide.shapes, are appended as one unit
ReadSlide ==
    /\ handler = "pptx"
    /\ wpc = "read"
    /\ unit_idx < Len(document)
    /\ extraction' = Append(extraction,
            Concat([k \in 1..Len(document[unit_idx + 1]) |->
                        extract_text_from_shape(document[unit_idx + 1][k])]))
    /\ unit_idx' = unit_idx + 1
    /\ UNCHANGED readerFrame

\* extractor.py:52-62
ReadAggregateSlide ==
    /\ handler = "aggregate"
    /\ wpc = "read"
    /\ unit_idx < Len(document)
    /\ extraction' = Append(extraction,
            Concat([k \in 1..Len(document[unit_idx + 1]) |->
                        extractor_extract_text_from_shape(document[unit_idx + 1][k])]))
    /\ unit_idx' = unit_idx + 1
    /\ UNCHANGED readerFrame

\* docx_handler.py:76-85: a body paragraph
ReadParagraph ==
    /\ handler = "docx"
    /\ wpc = "read"
    /\ unit_idx < Len(document.paragraphs)
    /\ extraction' = Append(extraction, DocxRunTexts(document.paragraphs[unit_idx + 1]))
    /\ unit_idx' = unit_idx + 1
    /\ UNCHANGED readerFrame

\* the paragraph of a table cell the loops of docx_handler.py:88-91 reach
\* after n others
TableParagraph(doc, n) ==
    doc.tables[DocxTableParagraphs(doc.tables)[n + 1][1]]
              [DocxTableParagraphs(doc.tables)[n + 1][2]]
              [DocxTableParagraphs(doc.tables)[n + 1][3]]
              [DocxTableParagraphs(doc.tables)[n + 1][4]]

\* docx_handler.py:87-96: the body is done, a paragraph of a table cell
ReadTableParagraph ==
    /\ handler = "docx"
    /\ wpc = "read"
    /\ unit_idx >= Len(document.paragraphs)
    /\ unit_idx < NumUnits(handler, document)
    /\ extraction' = Append(extraction,
            DocxRunTexts(TableParagraph(document, unit_idx - Len(document.paragraphs))))
    /\ unit_idx' = unit_idx + 1
    /\ UNCHANGED readerFrame

\* the root key of the structure a reader returns (pptx_handler.py:129,
\* docx_handler.py:74, extractor.py:50)
RootKey(h) == IF h = "docx" THEN "paragraphs" ELSE "slides"

\* pptx_handler.py:142, docx_handler.py:98, extractor.py:64: return result
ReturnExtraction ==
    /\ wpc = "read"
    /\ unit_idx = NumUnits(handler, document)
    /\ extractions' = Append(extractions, [key |-> RootKey(handler), units |-> extraction])
    /\ wpc' = "extracted"
    /\ UNCHANGED <<translatorVars, cliVars, handler, original, document, iteratorVars,
                   unit_idx, shape_idx, total_replaced, output, printed, extraction>>

\* ExtractAgain with a result that lives on from call to call
ExtractAgainAccumulating ==
    /\ wpc = "extracted"
    /\ Len(extractions) < MaxExtractions
    /\ document' = original
    /\ unit_idx' = 0
    /\ wpc' = "read"
    /\ UNCHANGED <<translatorVars, cliVars, handler, original, iteratorVars, shape_idx,
                   total_replaced, output, printed, extraction, extractions>>

\* extract_text is called on the same path again: the document is loaded
\* from the file and result starts empty
ExtractAgain ==
    /\ wpc = "extracted"
    /\ Len(extractions) < MaxExtractions
    /\ document' = original
    /\ extraction' = << >>
    /\ unit_idx' = 0
    /\ wpc' = "read"
    /\ UNCHANGED <<translatorVars, cliVars, handler, original, iteratorVars, shape_idx,
                   total_replaced, output, printed, extractions>>

NextRead ==
    \/ ReadSlide
    \/ ReadAggregateSlide
    \/ ReadParagraph
    \/ ReadTableParagraph
    \/ ReturnExtraction
    \/ ExtractAgain

SpecRead == InitRead /\ [][NextRead]_vars

(***************************************************************************)
(* Properties.                                                             *)
(***************************************************************************)
\* Y has the shape of X: the units of Y under the root key of X are as many as
\* those of X, each holds its texts, and unit by unit they hold as many
\* fragments
SameShape(X, Y) ==
    /\ Y.key = X.key
    /\ Y.no_texts = {}
    /\ Len(Y.units) = Len(X.units)
    /\ \A i \in 1..Len(X.units) : Len(Y.units[i]) = Len(X.units[i])

\* every unit of Y holds its texts and some unit of Y holds another number of
\* fragments than the same unit of X
AnyFragmentCountMismatch(X, Y) ==
    /\ Y.key = X.key
    /\ Y.no_texts = {}
    /\ \E i \in 1..Len(X.units) : i <= Len(Y.units) /\ Len(Y.units[i]) # Len(X.units[i])

\* Y has as many units as X and a unit whose fragment count differs from that
\* of the same unit of X (what the loop of translator.py:377-380 looks for)
FragmentCountMismatch(X, Y) ==
    /\ Y.key = X.key
    /\ Y.no_texts = {}
    /\ Len(Y.units) = Len(X.units)
    /\ \E i \in 1..Len(X.units) : Len(Y.units[i]) # Len(X.units[i])

\* the number of units of Y differs from that of X
UnitCountDiffers(X, Y) == Y.key = X.key /\ Len(Y.units) # Len(X.units)

RetryableKinds == ServerErrorKinds \cup {TimeoutKind}

ParseFailure == "Failed to parse Gemini response as JSON"

ScenarioRequest == Doc("slides", <<<<SourceText, SourceText>>>>, {})

C8_CallBudget ==
    [][/\ calls' <= max_retries
       /\ (/\ calls' = calls + 1
           /\ calls' = max_retries
           /\ pc' # "call_returned"
           /\ last_exc' \in RetryableKinds) =>
            /\ pc' = "raised"
            /\ error'.type = last_exc'
            /\ sleeps' = sleeps]_vars

\* C8 witness: the fifth call of a budget of five failed with a server error,
\* which was raised after four sleeps
C8_Witness ==
    /\ pc = "raised"
    /\ error.type = "ServiceUnavailable"
    /\ max_retries = 5
    /\ calls = 5
    /\ sleeps = 4

C10_ReturnAfterKFailures ==
    pc = "call_returned" =>
        /\ response # NoCompletion
        /\ calls = attempt + 1
        /\ sleeps = calls - 1
        /\ calls <= max_retries

\* C10 witness: max_retries = 5, two failures, then the response: 3 calls and
\* 2 sleeps
C10_Witness ==
    /\ pc = "call_returned"
    /\ max_retries = 5
    /\ last_exc = "ResourceExhausted"
    /\ calls = 3
    /\ sleeps = 2

\* the header value is there and reads as an integer
RetryAfterIsInteger(resp) == resp.response /\ resp.has /\ IntParses(resp.value)

\* C11: a rate-limit or server error on attempt a with attempts remaining sets
\* the wait to the Retry-After value when the header is present and an integer,
\* and to initial_delay * 2^a when it is absent, empty or not an integer; a
\* wait that is not negative is slept and the next attempt follows.
C11_ServerErrorWaitTime ==
    [][(/\ calls' = calls + 1
        /\ pc' # "call_returned"
        /\ last_exc' \in ServerErrorKinds
        /\ attempt < max_retries - 1) =>
            /\ wait_time' = IF RetryAfterIsInteger(last_response')
                             THEN IntValue(last_response'.value)
                             ELSE initial_delay * Pow2(attempt)
            /\ wait_time' >= 0 => (sleeps' = sleeps + 1 /\ attempt' = attempt + 1 /\ pc' = "call")]_vars

\* C11 witness: on attempt 1 with initial_delay = 3 a rate limit carrying
\* Retry-After: 10 was waited for 10 seconds, not 6
C11_Witness ==
    /\ pc = "call"
    /\ last_exc = "ResourceExhausted"
    /\ last_response = RetryAfter(<<"1", "0">>)
    /\ initial_delay = 3
    /\ attempt = 2
    /\ sleeps = 2
    /\ wait_time = 10

\* C12: a timeout on attempt a with attempts remaining waits
\* initial_delay * 2^(a+1), twice the default wait of a server error on that
\* attempt, whatever Retry-After its response carries.
C12_TimeoutWaitTime ==
    [][(/\ calls' = calls + 1
        /\ pc' # "call_returned"
        /\ last_exc' = TimeoutKind
        /\ attempt < max_retries - 1) =>
            /\ wait_time' = initial_delay * Pow2(attempt + 1)
            /\ wait_time' = 2 * ServerErrorWait(initial_delay, attempt, NoResponse)
            /\ sleeps' = sleeps + 1
            /\ attempt' = attempt + 1
            /\ pc' = "call"]_vars

\* C12 witness: on attempt 2 with initial_delay = 3 a timeout whose response
\* carried Retry-After: 7 was waited for 24 seconds
C12_Witness ==
    /\ pc = "call"
    /\ last_exc = TimeoutKind
    /\ last_response = RetryAfter(<<"7">>)
    /\ initial_delay = 3
    /\ attempt = 3
    /\ wait_time = 24

\* C17: once the unit cursor of the iterator is at or past the number of
\* units it stays there, and every get_next from then on returns None,
\* whatever calls of get_next and next_slide come between.
C17_NoWraparound ==
    [][text_iterator.current_slide >= Len(text_iterator.slides) =>
        /\ text_iterator'.current_slide >= Len(text_iterator'.slides)
        /\ text_iterator'.slides = text_iterator.slides
        /\ last_call' = "get_next" => translated_text' = NoText]_vars

\* C17 witness: an iterator over two units with texts, driven two units past
\* the last one, was asked for a text and returned None
C17_Witness ==
    /\ Len(text_iterator.slides) = 2
    /\ Len(text_iterator.slides[1]) > 0
    /\ text_iterator.current_slide = 4
    /\ last_call = "get_next"
    /\ translated_text = NoText

(***************************************************************************)
(* Properties of the writers.                                              *)
(***************************************************************************)
\* the translated structure the writer was given, and the units its reader
\* extracts from a document
Translated == text_iterator.slides

Extracted(doc) == ExtractText(handler, doc).units

RunLevel == handler \in {"pptx", "docx"}

SameCounts(X, T) ==
    /\ Len(T) = Len(X)
    /\ \A i \in 1..Len(X) : Len(T[i]) = Len(X[i])

AllWithText(T) == \A i \in 1..Len(T) : \A j \in 1..Len(T[i]) : T[i][j] # << >>

\* the text frames of a shape, of a slide and of a presentation, in document
\* order
RECURSIVE ShapeFrames(_)
ShapeFrames(shape) ==
    CASE shape.kind = "text" -> <<shape.text_frame>>
      [] shape.kind = "table" ->
            Concat([r \in 1..Len(shape.table) |-> shape.table[r]])
      [] shape.kind = "group" ->
            Concat([k \in 1..Len(shape.shapes) |-> ShapeFrames(shape.shapes[k])])
      [] OTHER -> << >>

SlideFrames(slide) == Concat([k \in 1..Len(slide) |-> ShapeFrames(slide[k])])

\* the number of runs of every paragraph of a document, place by place
RunCounts(doc) ==
    IF handler = "docx"
    THEN [paragraphs |-> [k \in 1..Len(doc.paragraphs) |-> Len(doc.paragraphs[k])],
          tables |-> [k \in 1..Len(DocxTableParagraphs(doc.tables)) |->
                LET at == DocxTableParagraphs(doc.tables)[k] IN
                    Len(doc.tables[at[1]][at[2]][at[3]][at[4]])]]
    ELSE [i \in 1..Len(doc) |->
            [f \in 1..Len(SlideFrames(doc[i])) |->
                [q \in 1..Len(SlideFrames(doc[i])[f]) |-> Len(SlideFrames(doc[i])[f][q])]]]

\* the texts of all runs of every unit of a document, with or without text,
\* in document order
ParagraphRunTexts(paragraph) == [r \in 1..Len(paragraph) |-> paragraph[r].text]

FrameNodeTexts(frame) == Concat([q \in 1..Len(frame) |-> ParagraphRunTexts(frame[q])])

UnitNodeTexts(doc) ==
    IF handler = "docx"
    THEN [k \in 1..Len(doc.paragraphs) |-> ParagraphRunTexts(doc.paragraphs[k])]
         \o [k \in 1..Len(DocxTableParagraphs(doc.tables)) |->
                LET at == DocxTableParagraphs(doc.tables)[k] IN
                    ParagraphRunTexts(doc.tables[at[1]][at[2]][at[3]][at[4]])]
    ELSE [i \in 1..Len(doc) |->
            Concat([f \in 1..Len(SlideFrames(doc[i])) |->
                        FrameNodeTexts(SlideFrames(doc[i])[f])])]

\* the places of the nodes that have text
Eligible(texts) == SelectSeq([n \in 1..Len(texts) |-> n], LAMBDA n : texts[n] # << >>)

FrameTexts(doc) ==
    [i \in 1..Len(doc) |->
        [f \in 1..Len(SlideFrames(doc[i])) |-> FrameText(SlideFrames(doc[i])[f])]]

\* C14: writing back the structure extracted from the document itself leaves
\* every text of the document as it was: the runs for the run-level
\* handlers, the text of every frame for the aggregate-level pair.
C14_IdentityRoundTrip ==
    (wpc = "done" /\ Translated = Extracted(original)) =>
        IF RunLevel THEN output = original ELSE FrameTexts(output) = FrameTexts(original)

\* C15: while the writer is at unit k the unit cursor of the iterator is k;
\* the cursor moves by one, and only when all top-level nodes of the unit
\* were processed; when the document is saved the cursor is the number of
\* units of the document.
C15_CursorFollowsUnits ==
    [][/\ wpc = "unit" => text_iterator.current_slide = unit_idx
       /\ text_iterator'.current_slide # text_iterator.current_slide =>
            /\ text_iterator'.current_slide = text_iterator.current_slide + 1
            /\ shape_idx = NumShapes(handler, document, unit_idx + 1)
            /\ unit_idx' = unit_idx + 1
       /\ unit_idx' # unit_idx =>
            text_iterator'.current_slide = text_iterator.current_slide + 1
       /\ wpc' \in {"summary", "done"} =>
            text_iterator'.current_slide = Len(Extracted(original))]_vars

\* C15 witness: a Word document of two body paragraphs and three table-cell
\* paragraphs was saved with the cursor at 5, past the 4 units of the
\* translated structure
C15_Witness ==
    /\ wpc = "done"
    /\ handler = "docx"
    /\ Len(original.paragraphs) = 2
    /\ original.tables # << >>
    /\ Len(Translated) = 4
    /\ text_iterator.current_slide = 5

\* the texts found in the units
AllTexts(units) == UNION {{units[i][j] : j \in 1..Len(units[i])} : i \in 1..Len(units)}

\* C16: whatever the fragment counts of the translated units are, the first
\* node with text of every unit k of the document receives the first fragment
\* of translated unit k, and a fragment of a unit for which the document's
\* unit has no node left is written nowhere.
C16_UnitsStayAligned ==
    (wpc = "done" /\ AllWithText(Translated)) =>
        /\ \A k \in 1..Len(Extracted(original)) :
            (Extracted(original)[k] # << >> /\ k <= Len(Translated) /\ Translated[k] # << >>)
                => Extracted(output)[k][1] = Translated[k][1]
        /\ \A i \in 1..Len(Translated) : \A j \in 1..Len(Translated[i]) :
            (i > Len(Extracted(original)) \/ j > Len(Extracted(original)[i]))
                => (Translated[i][j] \in {ExtraText, Tag(i, j)}
                    /\ Translated[i][j] \notin AllTexts(Extracted(output)))

\* C16 witness: the first translated unit held a fragment more than the first
\* slide has nodes, and the second slide still got its own first fragment
C16_Witness ==
    /\ wpc = "done"
    /\ handler = "pptx"
    /\ Len(original) = 2
    /\ Len(Translated) = 2
    /\ Len(Extracted(original)[1]) > 0
    /\ Len(Translated[1]) = Len(Extracted(original)[1]) + 1
    /\ Extracted(output)[2] # << >>
    /\ Extracted(output)[2][1] = Tag(2, 1)

FrameRuns(frame) == Concat([q \in 1..Len(frame) |-> frame[q]])

EligibleFrames(slide) ==
    SelectSeq([f \in 1..Len(SlideFrames(slide)) |-> f],
              LAMBDA f : Strip(FrameText(SlideFrames(slide)[f])) # << >>)

TextLength(runs) == Len(Concat([r \in 1..Len(runs) |-> runs[r].text]))

Distance(a, b) == IF a >= b THEN a - b ELSE b - a

C20_MismatchWarned ==
    wpc = "done" =>
        /\ output = document
        /\ total_replaced # SumLen(Translated) =>
            \E k \in 1..Len(printed) : printed[k] = "warning"

(***************************************************************************)
(* Properties of the commands.                                             *)
(***************************************************************************)
\* the documents whose pipeline raised, in the order of the loop
FailedDocuments ==
    SelectSeq([i \in 1..Len(doc_files) |-> i],
              LAMBDA i : outcomes[i] \notin {"pending", "skipped", "completed"})

C23_PromptForEveryAttempt ==
    pc # "prompt" =>
        /\ error.type # "TypeError"
        /\ prompt.built
        /\ prompt.warning <=> retry_attempt > 0

\* the units of the request whose fragment count the response gets wrong
WrongCounts == {k \in 1..Len(data.units) :
                    /\ translated_data.no_texts = {}
                    /\ Len(data.units[k]) # Len(translated_data.units[k])}

IsFenced(text) == Len(text) = 3 /\ text[1] = FenceLine /\ text[3] = FenceLine
                    /\ text[2].kind # "fence"

\* the bare payload of a fenced response; any other response is its own payload
BarePayload(text) == IF IsFenced(text) THEN <<text[2]>> ELSE text

\* what the validation of the bare text decides on attempt ra for request X
VerdictOf(X, text, ra) ==
    IF ~JsonParses(text)
    THEN IF ra = 0 THEN "parse retry" ELSE "parse failure"
    ELSE IF JsonLoads(text).key # X.key THEN "key error"
    ELSE IF Len(JsonLoads(text).units) # Len(X.units) THEN "unit count failure"
    ELSE IF \E k \in 1..Len(X.units) :
                /\ Len(JsonLoads(text).units[k]) # Len(X.units[k])
                /\ \A j \in JsonLoads(text).no_texts : k < j
         THEN IF ra < max_structure_retries THEN "structure retry"
              ELSE "structure failure"
    ELSE IF JsonLoads(text).no_texts # {} THEN "key error"
    ELSE "accept"

\* how the attempt ended
Outcome ==
    CASE pc = "returned" -> "accept"
      [] pc = "prompt" -> IF last_outcome = "unparsable" THEN "parse retry"
                          ELSE "structure retry"
      [] pc = "raised" ->
            IF error.type = "KeyError" THEN "key error"
            ELSE IF error.what = "Failed to parse Gemini response as JSON"
                 THEN "parse failure"
            ELSE IF error.what = "count mismatch" THEN "unit count failure"
            ELSE IF error.what = "Text count mismatch" THEN "structure failure"
            ELSE "other"
      [] OTHER -> "none"

AtEmptyFragment(it) ==
    /\ it.current_slide < Len(it.slides)
    /\ it.current_text < Len(it.slides[it.current_slide + 1])
    /\ it.slides[it.current_slide + 1][it.current_text + 1] = << >>

\* the translated structure as the response to the extraction of the document
TranslatedDoc == Doc(ExtractText(handler, original).key, Translated, {})

\* C25: an empty-string fragment of the translated structure is a value, not
\* the exhausted sentinel: validation counts it as a fragment, get_next returns
\* it and moves the cursor on, and a run-level writer writes the empty string
\* into the node at that position, counts it as a replacement and gives the
\* next node the next fragment.
C25_EmptyStringIsAValue ==
    /\ AtEmptyFragment(text_iterator) =>
            /\ get_next(text_iterator).value = SomeText(<< >>)
            /\ get_next(text_iterator).value # NoText
            /\ get_next(text_iterator).it.current_text = text_iterator.current_text + 1
            /\ get_next(text_iterator).it.current_slide = text_iterator.current_slide
    /\ (RunLevel /\ SameCounts(Extracted(original), Translated)) =>
            /\ HasRootKey(ExtractText(handler, original), TranslatedDoc)
            /\ SameUnitCount(ExtractText(handler, original), TranslatedDoc)
            /\ MismatchedUnits(ExtractText(handler, original), TranslatedDoc) = {}
    /\ (wpc = "done" /\ RunLevel /\ SameCounts(Extracted(original), Translated)) =>
            /\ \A i \in 1..Len(Translated) : \A j \in 1..Len(Translated[i]) :
                    Translated[i][j] = << >> =>
                        /\ UnitNodeTexts(original)[i][Eligible(UnitNodeTexts(original)[i])[j]] # << >>
                        /\ UnitNodeTexts(output)[i][Eligible(UnitNodeTexts(original)[i])[j]] = << >>
                        /\ j < Len(Translated[i]) =>
                              UnitNodeTexts(output)[i][Eligible(UnitNodeTexts(original)[i])[j + 1]]
                                  = Translated[i][j + 1]
            /\ total_replaced = SumLen(Translated)

\* C25 witness: a unit of two nodes with text was written with the empty string
\* and a translation; both count
C25_Witness ==
    /\ wpc = "done"
    /\ RunLevel
    /\ Translated = Blanked(ExtractText(handler, original)).units
    /\ \E i \in 1..Len(Translated) :
            /\ Len(Translated[i]) = 2
            /\ Translated[i][1] = << >>
            /\ Extracted(output)[i] = <<Tag(i, 2)>>
    /\ total_replaced = SumLen(Translated)
    /\ total_replaced > Len(Concat(Extracted(output)))

(***************************************************************************)
(* Properties of the readers.                                              *)
(***************************************************************************)
\* the texts that are not empty, in order
NonEmpty(texts) == SelectSeq(texts, LAMBDA t : t # << >>)

\* the paragraphs of the cells of the tables of a Word document
CellParagraphs(doc) ==
    Concat([t \in 1..Len(doc.tables) |->
        Concat([r \in 1..Len(doc.tables[t]) |->
            Concat([c \in 1..Len(doc.tables[t][r]) |-> doc.tables[t][r][c]])])])

\* C26: extraction is deterministic and has no effect on the document:
\* the structures two calls of extract_text return for the same unmodified
\* document are identical (same units, same fragments, same order), the
\* document loaded is as it is on disk and nothing is saved.
C26_ExtractionRepeatable ==
    /\ document = original
    /\ output = << >>
    /\ \A m \in 1..Len(extractions) : \A n \in 1..Len(extractions) :
            extractions[m] = extractions[n]
    /\ wpc = "extracted" => extractions[Len(extractions)].units = extraction

\* C26 witness: a Word document with a table was extracted twice, five
\* units each time, some of them with fragments
C26_Witness ==
    /\ handler = "docx"
    /\ Len(extractions) = 2
    /\ Len(extractions[1].units) = 5
    /\ Len(Concat(extractions[2].units)) > 3

\* C27: a reader returns exactly one unit per top-level container, the
\* containers without fragment included: for a presentation as many units as
\* slides, unit i holding the fragments of slide i; for a Word document as
\* many as body paragraphs and table-cell paragraphs together, the units of the
\* body paragraphs first, in order, and the units of the table-cell paragraphs
\* after all of them.
C27_OneUnitPerContainer ==
    /\ wpc = "read" => Len(extraction) = unit_idx
    /\ \A n \in 1..Len(extractions) :
        IF handler = "docx"
        THEN /\ Len(extractions[n].units)
                    = Len(original.paragraphs) + Len(CellParagraphs(original))
             /\ \A k \in 1..Len(original.paragraphs) :
                    extractions[n].units[k]
                        = NonEmpty(ParagraphRunTexts(original.paragraphs[k]))
             /\ \A k \in 1..Len(CellParagraphs(original)) :
                    extractions[n].units[Len(original.paragraphs) + k]
                        = NonEmpty(ParagraphRunTexts(CellParagraphs(original)[k]))
        ELSE /\ Len(extractions[n].units) = Len(original)
             /\ handler = "pptx" =>
                    \A i \in 1..Len(original) :
                        Len(extractions[n].units[i])
                            = Len(NonEmpty(UnitNodeTexts(original)[i]))

\* C27 witness: a presentation whose first slide has no text and whose second
\* has was extracted to an empty unit and a unit with fragments
C27_Witness ==
    /\ handler = "pptx"
    /\ wpc = "extracted"
    /\ Len(original) = 2
    /\ Len(extractions[1].units) = 2
    /\ extractions[1].units[1] = << >>
    /\ extractions[1].units[2] # << >>

\* C28: in the run-level readers a run contributes a fragment if and only if
\* its text is not empty, and the fragment is the text of the run as it is:
\* runs of whitespace only are emitted and no fragment is trimmed.
C28_NonEmptyRunsUntrimmed ==
    RunLevel =>
        \A n \in 1..Len(extractions) :
            /\ Len(extractions[n].units) = Len(UnitNodeTexts(original))
            /\ \A i \in 1..Len(extractions[n].units) :
                    extractions[n].units[i] = NonEmpty(UnitNodeTexts(original)[i])

\* C28 witness: a slide with an empty run, a run of one blank and a run with
\* blanks around its text was read; the blank and the untrimmed text are
\* fragments, the empty run is none
C28_Witness ==
    /\ handler = "pptx"
    /\ wpc = "extracted"
    /\ Len(original) = 1
    /\ << >> \in {UnitNodeTexts(original)[1][k] : k \in 1..Len(UnitNodeTexts(original)[1])}
    /\ extractions[1].units[1] =
            << <<"H", "i">>, <<"a">>, <<" ", "b", " ">>, <<" ">>,
               <<" ">>, <<"a">>, <<" ", "b", " ">>, <<"H", "i">> >>

(***************************************************************************)
(* Properties of the traversal.                                            *)
(***************************************************************************)
\* the texts of all nodes of a shape in the order of the claim: the runs of
\* its own text frame, its table row by row and cell by cell, its child
\* shapes one after the other, each in this order
RECURSIVE Visited(_)
Visited(shape) ==
    FrameNodeTexts(shape.text_frame)
        \o Concat([r \in 1..Len(shape.table) |->
                Concat([c \in 1..Len(shape.table[r]) |-> FrameNodeTexts(shape.table[r][c])])])
        \o Concat([k \in 1..Len(shape.shapes) |-> Visited(shape.shapes[k])])

SlideVisited(slide) == Concat([k \in 1..Len(slide) |-> Visited(slide[k])])

\* a shape and the shapes below it
RECURSIVE ShapesBelow(_)
ShapesBelow(shape) ==
    <<shape>> \o Concat([k \in 1..Len(shape.shapes) |-> ShapesBelow(shape.shapes[k])])

SlideShapes(slide) == Concat([k \in 1..Len(slide) |-> ShapesBelow(slide[k])])

\* the fragments a slide holds before its top-level shape k
FragmentsBefore(slide, k) == Len(NonEmpty(SlideVisited(SubSeq(slide, 1, k - 1))))

\* C29: within one shape the reader and the writer of presentations both go
\* through the runs of the shape's own text frame, then the cells of its table
\* row by row and cell by cell within a row, then its child shapes in their
\* stored order, each in the same way; the fragments of a group, nested ones
\* included, are one contiguous block at the position of the group.
C29_TraversalOrder ==
    handler = "pptx" =>
        /\ \A i \in 1..Len(original) :
            /\ Extracted(original)[i] = NonEmpty(SlideVisited(original[i]))
            /\ \A n \in 1..Len(SlideShapes(original[i])) :
                    extract_text_from_shape(SlideShapes(original[i])[n])
                        = NonEmpty(Visited(SlideShapes(original[i])[n]))
            /\ \A k \in 1..Len(original[i]) :
                    SubSeq(Extracted(original)[i],
                           FragmentsBefore(original[i], k) + 1,
                           FragmentsBefore(original[i], k + 1))
                        = NonEmpty(Visited(original[i][k]))
        /\ (wpc = "done" /\ Translated = Tagged(ExtractText(handler, original)).units) =>
            \A i \in 1..Len(original) :
                /\ Len(SlideVisited(output[i])) = Len(SlideVisited(original[i]))
                /\ \A j \in 1..Len(Translated[i]) :
                        SlideVisited(output[i])[Eligible(SlideVisited(original[i]))[j]]
                            = Tag(i, j)
                /\ \A k \in 1..Len(original[i]) :
                        NonEmpty(Visited(output[i][k]))
                            = [j \in 1..Len(NonEmpty(Visited(original[i][k]))) |->
                                    Tag(i, FragmentsBefore(original[i], k) + j)]

\* C29 witness: a slide of a table of two rows, a group of two boxes and a box
\* was written with eight translations; the second row of the table holds the
\* fourth, the group the fifth to the seventh and the box the eighth
C29_Witness ==
    /\ wpc = "done"
    /\ handler = "pptx"
    /\ Len(original) = 1
    /\ Len(original[1]) = 3
    /\ original[1][1] = SquareTable
    /\ Translated = Tagged(ExtractText(handler, original)).units
    /\ Len(Translated[1]) = 8
    /\ output[1][1].table[2][1][1][1].text = Tag(1, 4)
    /\ NonEmpty(Visited(output[1][2])) = <<Tag(1, 5), Tag(1, 6), Tag(1, 7)>>
    /\ NonEmpty(Visited(output[1][3])) = <<Tag(1, 8)>>

LacksAKey == ~HasRootKey(data, translated_data) \/ translated_data.no_texts # {}

Exhausted(it) ==
    \/ it.current_slide >= Len(it.slides)
    \/ it.current_text >= Len(it.slides[it.current_slide + 1])

\* node j of unit k has no fragment in the translated structure T
Unserved(T, k, j) == k > Len(T) \/ j > Len(T[k])

\* the nodes of the units X that have a fragment in T
Served(X, T) ==
    {<<k, j>> \in (1..Len(X)) \X (1..SumLen(X)) :
        j <= Len(X[k]) /\ ~Unserved(T, k, j)}

\* the writer has a step to take: a node of the unit to write, the unit to
\* leave, the document to save or the summary to print
WriterCanStep ==
    \/ /\ wpc = "unit"
       /\ unit_idx < NumUnits(handler, document)
       /\ shape_idx <= NumShapes(handler, document, unit_idx + 1)
    \/ wpc = "unit" /\ unit_idx = NumUnits(handler, document)
    \/ wpc = "summary"

\* C33: when a unit of the document has more nodes with text than the
\* translated unit has fragments, or the document has more units than the
\* translated structure, the writer has its next step until it is done; a
\* write step taken with the iterator exhausted changes nothing in the
\* document and counts nothing; at the end every node that got no fragment
\* reads as in the original, and the count is that of the nodes that got one.
C33_ExhaustedNodesUntouched ==
    /\ [](wpc # "done" => WriterCanStep)
    /\ [][(wpc = "unit" /\ Exhausted(text_iterator))
            => (document' = document /\ total_replaced' = total_replaced)]_vars
    /\ []((wpc = "done" /\ AllWithText(Translated)) =>
            /\ output = document
            /\ Len(Extracted(output)) = Len(Extracted(original))
            /\ \A k \in 1..Len(Extracted(original)) :
                /\ Len(Extracted(output)[k]) = Len(Extracted(original)[k])
                /\ \A j \in 1..Len(Extracted(original)[k]) :
                        Unserved(Translated, k, j)
                            => Extracted(output)[k][j] = Extracted(original)[k][j]
            /\ total_replaced = Cardinality(Served(Extracted(original), Translated)))

\* the first slide has two nodes with text and its translated unit one
\* fragment: the first node was written and counted, the second reads as
\* before
C33_Witness ==
    /\ wpc = "done"
    /\ handler = "pptx"
    /\ Len(Extracted(original)) > 0
    /\ Len(Extracted(original)[1]) = 2
    /\ Len(Translated) = Len(Extracted(original))
    /\ Len(Translated[1]) = 1
    /\ Extracted(output)[1] = <<Tag(1, 1), Extracted(original)[1][2]>>
    /\ total_replaced = SumLen(Translated)
    /\ total_replaced < SumLen(Extracted(original))

\* the fragments of unit k of T, none when T has no unit k
FragmentsOf(T, k) == IF k <= Len(T) THEN Len(T[k]) ELSE 0

\* the sum over the units k of X, from unit k on, of the smaller of the number
\* of nodes of X[k] and the number of fragments of unit k of T
RECURSIVE SumOfMin(_, _, _)
SumOfMin(X, T, k) ==
    IF k > Len(X) THEN 0
    ELSE (IF Len(X[k]) < FragmentsOf(T, k) THEN Len(X[k]) ELSE FragmentsOf(T, k))
            + SumOfMin(X, T, k + 1)

\* C34: the count reintegrate_text returns is the number of writes it made:
\* every step adds to the count the number of texts it took from the iterator;
\* the returned count is the sum over the units k of the document of the
\* smaller of the number of nodes with text of unit k and the number of
\* fragments of translated unit k, a missing translated unit counting 0; it is
\* the number of translated fragments when the translated structure has the
\* shape of the extraction.
C34_CountIsSumOfMin ==
    /\ [][(wpc = "unit" /\ unit_idx' = unit_idx) =>
            total_replaced' - total_replaced =
                text_iterator'.current_text - text_iterator.current_text]_vars
    /\ [](wpc \in {"summary", "done"} =>
            /\ total_replaced = SumOfMin(Extracted(original), Translated, 1)
            /\ SameCounts(Extracted(original), Translated)
                    => total_replaced = SumLen(Translated))

\* a Word document whose first paragraph got a fragment too many and whose
\* other units got their own: the count is that of the runs with text, one
\* less than the translated fragments
C34_Witness ==
    /\ wpc = "done"
    /\ handler = "docx"
    /\ Len(Translated) = Len(Extracted(original))
    /\ Len(Translated) > 1
    /\ Len(Translated[1]) = Len(Extracted(original)[1]) + 1
    /\ total_replaced = SumLen(Extracted(original))
    /\ total_replaced = SumLen(Translated) - 1
    /\ total_replaced > 1

PipelineOrder ==
    <<"extract", "extracted_json", "translate", "translated_json", "reintegrate", "output">>

\* the place of an event in that order
PlaceOf(event) == CHOOSE n \in 1..Len(PipelineOrder) : PipelineOrder[n] = event

\* the events of a log
EventsOf(log) == {log[n] : n \in 1..Len(log)}

C37_ZeroBudgetRaises ==
    /\ [](max_retries = 0 =>
            /\ calls = 0
            /\ sleeps = 0
            /\ attempt = 0
            /\ pc \in {"call", "raised"}
            /\ pc = "raised" =>
                    error = Raised("Exception", "Failed after max_retries retry attempts"))
    /\ [][(max_retries = 0 /\ pc = "call") => pc' = "raised"]_vars

\* the call with no budget has raised
C37_Witness ==
    /\ max_retries = 0
    /\ pc = "raised"
    /\ error.type = "Exception"
    /\ calls = 0
    /\ sleeps = 0
    /\ last_exc = "none"

\* C38: in every state of the iterator both cursors are at least 0 and, while
\* the unit cursor is in range, the text cursor is at most the number of
\* fragments of the current unit; a get_next that returns None leaves both
\* cursors where they were; a get_next that returns a text returns the one
\* under the text cursor and moves that cursor on by 1, the unit cursor
\* staying; next_slide / next_paragraph moves the unit cursor on by 1 and
\* puts the text cursor at 0; no call changes the units.
C38_CursorInvariants ==
    /\ [](/\ text_iterator.current_slide >= 0
          /\ text_iterator.current_text >= 0
          /\ text_iterator.current_slide < Len(text_iterator.slides) =>
                text_iterator.current_text
                    <= Len(text_iterator.slides[text_iterator.current_slide + 1]))
    /\ [][/\ text_iterator'.slides = text_iterator.slides
          /\ (last_call' = "get_next" /\ ~translated_text'.some) =>
                /\ text_iterator'.current_slide = text_iterator.current_slide
                /\ text_iterator'.current_text = text_iterator.current_text
          /\ (last_call' = "get_next" /\ translated_text'.some) =>
                /\ text_iterator'.current_slide = text_iterator.current_slide
                /\ text_iterator'.current_text = text_iterator.current_text + 1
                /\ translated_text'.text =
                        text_iterator.slides[text_iterator.current_slide + 1]
                                            [text_iterator.current_text + 1]
          /\ last_call' = "next_slide" =>
                /\ text_iterator'.current_slide = text_iterator.current_slide + 1
                /\ text_iterator'.current_text = 0]_vars

\* the second unit of two was read to its end: the last get_next returned
\* None with the text cursor at the number of its fragments
C38_Witness ==
    /\ Len(text_iterator.slides) = 2
    /\ Len(text_iterator.slides[2]) = 2
    /\ text_iterator.current_slide = 1
    /\ text_iterator.current_text = 2
    /\ last_call = "get_next"
    /\ translated_text = NoText

=============================================================================
